---- MODULE Spec2Model ----
(***************************************************************************)
(* A model of omelet-cli's Markdown asset pipeline: the pattern scanner    *)
(* and rewrite engine of markdown_processor.py and the upload/render       *)
(* orchestrator of cli.py (buildmarkdown).                                 *)
(*                                                                         *)
(* A text is a sequence of tokens.  A token is a string: one delimiter     *)
(* character ("!", "[", "]", "(", ")", " ", "\n"), a code fence, or a       *)
(* run of characters that holds no delimiter ("img", ".png", "assets/",    *)
(* "https://").  The regular expressions of the source are evaluated       *)
(* token by token, as Python's re module evaluates them character by       *)
(* character.                                                              *)
(***************************************************************************)
EXTENDS Naturals, Sequences, FiniteSets, TLC

(***************************************************************************)
(* Bounds of the model.                                                    *)
(***************************************************************************)
\* Longest document of a buildmarkdown invocation, in segments.
MaxSegs == 3
\* Longest document of the repeated invocations, in segments.
MaxRerunSegs == 2
\* Invocations of buildmarkdown on the same file.
MaxRuns == 2
\* Collaborator and file-system failures in one behaviour.
MaxFaults == 2
\* Longest text handed to the rewrite engine on its own, in segments.
MaxRwSegs == 2
\* Segments of a text given to the scanner.
MaxScanSegs == 2
\* Longest document of an invocation with options, in segments.
MaxCmdSegs == 2

(***************************************************************************)
(* Sequences of tokens.                                                    *)
(***************************************************************************)
MinOf(S) == CHOOSE x \in S : \A y \in S : x <= y

\* The first index >= i at which s holds token t, 0 when there is none.
IndexFrom(s, i, t) ==
    LET c == {j \in i..Len(s) : s[j] = t}
    IN  IF c = {} THEN 0 ELSE MinOf(c)

\* s[i..] begins with p (str.startswith at offset i).
StartsWithAt(s, i, p) ==
    /\ i + Len(p) - 1 <= Len(s)
    /\ \A k \in 1..Len(p) : s[i + k - 1] = p[k]

\* The first index >= i at which p occurs in s, 0 when there is none.
RECURSIVE FindFrom(_, _, _)
FindFrom(s, i, p) ==
    IF i + Len(p) - 1 > Len(s) THEN 0
    ELSE IF StartsWithAt(s, i, p) THEN i
    ELSE FindFrom(s, i + 1, p)

Contains(s, p) == FindFrom(s, 1, p) # 0

RECURSIVE CharLen(_)
\* len() of the string the tokens spell.
CharLen(s) == IF s = <<>> THEN 0 ELSE Len(Head(s)) + CharLen(Tail(s))

RECURSIVE Flatten(_)
Flatten(ss) == IF ss = <<>> THEN <<>> ELSE Head(ss) \o Flatten(Tail(ss))

IsSpace(t) == t \in {" ", "\n", "\t"}

RECURSIVE LStrip(_)
LStrip(s) == IF s # <<>> /\ IsSpace(Head(s)) THEN LStrip(Tail(s)) ELSE s

RECURSIVE RStrip(_)
RStrip(s) ==
    IF s # <<>> /\ IsSpace(s[Len(s)]) THEN RStrip(SubSeq(s, 1, Len(s) - 1)) ELSE s

\* No strip at all.
Strip_none(s) == s

\* str.strip()
Strip(s) == RStrip(LStrip(s))

\* str.lower() of one token; the tokens of the model that hold capitals.
Lower(t) ==
    CASE t = ".PNG" -> ".png"
      [] t = ".JPG" -> ".jpg"
      [] OTHER -> t

(***************************************************************************)
(* markdown_processor.py: MarkdownProcessor                                *)
(***************************************************************************)
NoMatch == [ok |-> FALSE]

\* The pattern with + for the alt text too: !\[([^\]]+)\]\(([^)]+)\).
ImageMatchAt_altplus(s, i) ==
    IF i + 1 > Len(s) \/ s[i] # "!" \/ s[i + 1] # "[" THEN NoMatch
    ELSE LET j == IndexFrom(s, i + 2, "]") IN
         IF j = 0 \/ j = i + 2 \/ j + 1 > Len(s) \/ s[j + 1] # "(" THEN NoMatch
         ELSE LET k == IndexFrom(s, j + 2, ")") IN
              IF k = 0 \/ k = j + 2 THEN NoMatch
              ELSE [ok |-> TRUE,
                    alt_text |-> SubSeq(s, i + 2, j - 1),
                    original |-> SubSeq(s, j + 2, k - 1),
                    match_start |-> i,
                    match_end |-> k]

\* image_pattern = !\[([^\]]*)\]\(([^)]+)\) tried at index i.  Neither class
\* can take its own closing delimiter, so the match, when there is one, is
\* the only one: alt text up to the first "]", reference up to the first ")".
ImageMatchAt(s, i) ==
    IF i + 1 > Len(s) \/ s[i] # "!" \/ s[i + 1] # "[" THEN NoMatch
    ELSE LET j == IndexFrom(s, i + 2, "]") IN
         IF j = 0 \/ j + 1 > Len(s) \/ s[j + 1] # "(" THEN NoMatch
         ELSE LET k == IndexFrom(s, j + 2, ")") IN
              IF k = 0 \/ k = j + 2 THEN NoMatch
              ELSE [ok |-> TRUE,
                    alt_text |-> SubSeq(s, i + 2, j - 1),
                    original |-> SubSeq(s, j + 2, k - 1),
                    match_start |-> i,
                    match_end |-> k]

image_extensions == {".png", ".jpg", ".jpeg", ".gif", ".svg", ".webp", ".bmp", ".ico"}

RemoteSchemes == {"http://", "https://", "ftp://", "//"}

\* The extension compared without path.lower().
_is_local_image_cs(path) ==
    /\ path # <<>>
    /\ path[1] \notin RemoteSchemes
    /\ path[Len(path)] \in image_extensions

_is_local_image(path) ==
    /\ path # <<>>
    /\ path[1] \notin RemoteSchemes
    /\ Lower(path[Len(path)]) \in image_extensions

\* markdown_path.parent / image_path, resolved: a leading "./" is dropped.
ResolvePath(image_path) ==
    IF image_path # <<>> /\ image_path[1] = "./" THEN Tail(image_path) ELSE image_path

RECURSIVE FinditerImagesFrom(_, _)
FinditerImagesFrom(s, i) ==
    IF i > Len(s) THEN <<>>
    ELSE LET m == ImageMatchAt(s, i) IN
         IF m.ok
         THEN <<m>> \o FinditerImagesFrom(s, m.match_end + 1)
         ELSE FinditerImagesFrom(s, i + 1)

\* re.finditer(self.image_pattern, content): the matches from left to
\* right, none overlapping another.
finditer_images(content) == FinditerImagesFrom(content, 1)

RECURSIVE LocalImages_rev(_, _)
\* images.insert(0, ...) in place of images.append(...): last match first.
LocalImages_rev(matches, fs) ==
    IF matches = <<>> THEN <<>>
    ELSE LET m == Head(matches) IN
         IF _is_local_image(m.original) /\ ResolvePath(m.original) \in fs
         THEN LocalImages_rev(Tail(matches), fs)
              \o <<[alt_text |-> m.alt_text,
                    original |-> m.original,
                    path |-> ResolvePath(m.original),
                    match_start |-> m.match_start,
                    match_end |-> m.match_end]>>
         ELSE LocalImages_rev(Tail(matches), fs)

RECURSIVE LocalImages(_, _)
LocalImages(matches, fs) ==
    IF matches = <<>> THEN <<>>
    ELSE LET m == Head(matches) IN
         IF _is_local_image(m.original) /\ ResolvePath(m.original) \in fs
         THEN <<[alt_text |-> m.alt_text,
                 original |-> m.original,
                 path |-> ResolvePath(m.original),
                 match_start |-> m.match_start,
                 match_end |-> m.match_end]>> \o LocalImages(Tail(matches), fs)
         ELSE LocalImages(Tail(matches), fs)

\* fs: the regular files that exist, as paths relative to the document's
\* directory.
find_local_images(content, fs) == LocalImages(finditer_images(content), fs)

(***************************************************************************)
(* re.sub's replacement template r'\1' + public_url + r'\2'.  The target   *)
(* is parsed as part of the template: a digit right after \1 extends the   *)
(* group number (or, with two octal digits, makes an octal escape in       *)
(* which \1 is lost) and a backslash starts an escape.                     *)
(***************************************************************************)
\* Tokens that begin with a digit which is not followed by an octal digit.
DigitTokens == {"1x", "9", "1.2.3.4/"}
\* Tokens that begin with two octal digits: \1 and they are one octal escape.
OctalTokens == {"2024/"}
\* The text an octal token leaves behind ("\120" is "P").
OctalText(t) == CASE t = "2024/" -> "P24/" [] OTHER -> t
\* Escapes re accepts in a template, and what they expand to.
KnownEscapes == {"\\n", "\\\\"}
EscapeText(t) == CASE t = "\\n" -> "\n" [] t = "\\\\" -> "\\" [] OTHER -> t
\* Escapes re rejects ("bad escape").
BadEscapes == {"\\q", "\\"}

TemplateError == [err |-> TRUE, text |-> <<>>]

ExpandTemplate(group1, public_url, group2) ==
    IF \E k \in 1..Len(public_url) : public_url[k] \in BadEscapes
    THEN TemplateError
    ELSE LET body == [k \in 1..Len(public_url) |-> EscapeText(public_url[k])] IN
         IF public_url # <<>> /\ public_url[1] \in DigitTokens
         THEN TemplateError
         ELSE IF public_url # <<>> /\ public_url[1] \in OctalTokens
         THEN [err |-> FALSE,
               text |-> <<OctalText(public_url[1])>> \o Tail(body) \o group2]
         ELSE [err |-> FALSE, text |-> group1 \o body \o group2]

\* The pattern without its anchor on the left of the reference: a link whose
\* reference ends with original_path matches too.
UrlMatchAt_tail(s, i, original_path) ==
    IF i + 1 > Len(s) \/ s[i] # "!" \/ s[i + 1] # "[" THEN NoMatch
    ELSE LET j == IndexFrom(s, i + 2, "]") IN
         IF j = 0 \/ j + 1 > Len(s) \/ s[j + 1] # "(" THEN NoMatch
         ELSE LET e == IndexFrom(s, j + 2, ")") IN
              IF /\ e >= j + 2 + Len(original_path)
                 /\ SubSeq(s, e - Len(original_path), e - 1) = original_path
              THEN [ok |-> TRUE,
                    group1 |-> SubSeq(s, i, e - Len(original_path) - 1),
                    match_end |-> e]
              ELSE NoMatch

\* (\!\[[^\]]*\]\() + re.escape(original_path) + (\)) tried at index i.
UrlMatchAt(s, i, original_path) ==
    IF i + 1 > Len(s) \/ s[i] # "!" \/ s[i + 1] # "[" THEN NoMatch
    ELSE LET j == IndexFrom(s, i + 2, "]") IN
         IF j = 0 \/ j + 1 > Len(s) \/ s[j + 1] # "(" THEN NoMatch
         ELSE LET e == j + 2 + Len(original_path) IN
              IF StartsWithAt(s, j + 2, original_path) /\ e <= Len(s) /\ s[e] = ")"
              THEN [ok |-> TRUE, group1 |-> SubSeq(s, i, j + 1), match_end |-> e]
              ELSE NoMatch

RECURSIVE SubFrom(_, _, _, _)
\* re.sub(pattern, replacement, content) from index i, the template being valid.
SubFrom(s, i, original_path, public_url) ==
    IF i > Len(s) THEN <<>>
    ELSE LET m == UrlMatchAt(s, i, original_path) IN
         IF m.ok
         THEN ExpandTemplate(m.group1, public_url, <<")">>).text
              \o SubFrom(s, m.match_end + 1, original_path, public_url)
         ELSE <<s[i]>> \o SubFrom(s, i + 1, original_path, public_url)

\* One iteration of replace_urls' loop: re.sub raises on a bad template
\* whether or not the pattern matches.
ReSub(content, original_path, public_url) ==
    IF ExpandTemplate(<<>>, public_url, <<>>).err
    THEN TemplateError
    ELSE [err |-> FALSE, text |-> SubFrom(content, 1, original_path, public_url)]

\* sorted(url_mappings.items(), key=lambda x: len(x[0]), reverse=True): a
\* stable sort, the mapping being a sequence of entries in insertion order.
RECURSIVE InsertByLen(_, _)
InsertByLen(e, sorted) ==
    IF sorted = <<>> THEN <<e>>
    ELSE IF CharLen(Head(sorted).key) >= CharLen(e.key)
         THEN <<Head(sorted)>> \o InsertByLen(e, Tail(sorted))
         ELSE <<e>> \o sorted

RECURSIVE SortByLenDesc(_)
SortByLenDesc(m) ==
    IF m = <<>> THEN <<>>
    ELSE InsertByLen(m[Len(m)], SortByLenDesc(SubSeq(m, 1, Len(m) - 1)))

sorted_mappings(url_mappings) == SortByLenDesc(url_mappings)

RECURSIVE ApplyMappings(_, _)
ApplyMappings(content, entries) ==
    IF entries = <<>> THEN [err |-> FALSE, text |-> content]
    ELSE LET r == ReSub(content, Head(entries).key, Head(entries).url) IN
         IF r.err THEN TemplateError ELSE ApplyMappings(r.text, Tail(entries))

\* url_mappings: a sequence of [key, url] entries with distinct keys.  The
\* result is the new text, or err when re.sub raised.
replace_urls(content, url_mappings) ==
    ApplyMappings(content, sorted_mappings(url_mappings))

(***************************************************************************)
(* Diagram blocks.                                                         *)
(***************************************************************************)
\* The token of a code fence, three backticks (a TLA+ string cannot hold a
\* backtick).
Fence == "FENCE"

MaxOf(S) == CHOOSE x \in S : \A y \in S : x >= y

\* The last index of the run of whitespace tokens that starts at i (i - 1
\* when s[i] is no whitespace).
RECURSIVE SpaceRunEnd(_, _)
SpaceRunEnd(s, i) ==
    IF i <= Len(s) /\ IsSpace(s[i]) THEN SpaceRunEnd(s, i + 1) ELSE i - 1

\* ```plantuml\s*\n(.*?)``` with re.DOTALL tried at index i.  The greedy \s*
\* gives back up to the last newline of the whitespace run; the lazy body
\* ends at the first closing fence.
FenceMatchAt(s, i) ==
    IF i + 1 > Len(s) \/ s[i] # Fence \/ s[i + 1] # "plantuml" THEN NoMatch
    ELSE LET nl == {n \in (i + 2)..SpaceRunEnd(s, i + 2) : s[n] = "\n"} IN
         IF nl = {} THEN NoMatch
         ELSE LET n == MaxOf(nl)
                  c == IndexFrom(s, n + 1, Fence)
              IN  IF c = 0 THEN NoMatch
                  ELSE [ok |-> TRUE,
                        group1 |-> SubSeq(s, n + 1, c - 1),
                        full_match |-> SubSeq(s, i, c),
                        match_start |-> i,
                        match_end |-> c]

\* The run of non-whitespace tokens that starts at i.
RECURSIVE NonSpaceRun(_, _)
NonSpaceRun(s, i) ==
    IF i <= Len(s) /\ ~IsSpace(s[i]) THEN <<s[i]>> \o NonSpaceRun(s, i + 1) ELSE <<>>

RECURSIVE SearchName(_, _)
\* re.search(r'@startuml\s+(\S+)', puml_content) from index i.
SearchName(s, i) ==
    IF i > Len(s) THEN <<>>
    ELSE IF s[i] = "@startuml"
            /\ SpaceRunEnd(s, i + 1) >= i + 1
            /\ NonSpaceRun(s, SpaceRunEnd(s, i + 1) + 1) # <<>>
         THEN NonSpaceRun(s, SpaceRunEnd(s, i + 1) + 1)
         ELSE SearchName(s, i + 1)

_extract_diagram_name(puml_content) ==
    IF SearchName(puml_content, 1) # <<>>
    THEN SearchName(puml_content, 1)
    ELSE <<"diagram">>

\* hashlib.md5(puml_content.encode()).hexdigest()[:8], tabulated for the
\* diagram sources of the model.
content_hash(puml_content) ==
    CASE puml_content = <<"@startuml", " ", "d", "\n", "A", "\n", "@enduml">> -> "1c597d0a"
      [] puml_content = <<"B">> -> "9d5ed678"
      [] puml_content = <<"A">> -> "7fc56270"
      [] puml_content = <<>> -> "d41d8cd9"
      [] puml_content = <<"@startuml", "\n", "A">> -> "2bf93d8a"
      [] puml_content = <<"A", "\n", "@enduml">> -> "fb958335"
      [] puml_content = <<"B", "\n">> -> "30cf3d7d"
      [] puml_content = <<"'c", "\n", "@startuml", "\n", "A", "\n", "@enduml">> -> "ae120991"
      [] puml_content = <<" ", "B", "\n", "\n">> -> "f5c0fc51"
      [] OTHER -> "ffffffff"

RECURSIVE FindBlocksFrom(_, _)
FindBlocksFrom(s, i) ==
    IF i > Len(s) THEN <<>>
    ELSE LET m == FenceMatchAt(s, i) IN
         IF ~m.ok THEN FindBlocksFrom(s, i + 1)
         ELSE <<[content |-> Strip(m.group1),
                 full_match |-> m.full_match,
                 match_start |-> m.match_start,
                 match_end |-> m.match_end,
                 diagram_name |-> _extract_diagram_name(Strip(m.group1)),
                 hash |-> content_hash(Strip(m.group1))]>>
              \o FindBlocksFrom(s, m.match_end + 1)

find_plantuml_blocks(content) == FindBlocksFrom(content, 1)

RECURSIVE ReplaceAllFrom(_, _, _, _)
\* str.replace(old, new) from index i, old not empty.
ReplaceAllFrom(s, i, old, new) ==
    IF i > Len(s) THEN <<>>
    ELSE IF StartsWithAt(s, i, old)
         THEN new \o ReplaceAllFrom(s, i + Len(old), old, new)
         ELSE <<s[i]>> \o ReplaceAllFrom(s, i + 1, old, new)

\* str.replace(old, new, 1): only the first occurrence.
StrReplace_first(s, old, new) ==
    IF FindFrom(s, 1, old) = 0 THEN s
    ELSE SubSeq(s, 1, FindFrom(s, 1, old) - 1) \o new
         \o SubSeq(s, FindFrom(s, 1, old) + Len(old), Len(s))

\* str.replace(old, new); an empty old puts new around every character.
StrReplace(s, old, new) ==
    IF old = <<>>
    THEN new \o Flatten([k \in 1..Len(s) |-> <<s[k]>> \o new])
    ELSE ReplaceAllFrom(s, 1, old, new)

\* An embed line that keeps the fenced block after it.
image_markdown_keep(block, image_path) ==
    <<"!", "[">> \o block.diagram_name \o <<"]", "(">> \o image_path \o <<")", "\n">>
        \o block.full_match

\* f"![{block['diagram_name']}]({image_path})"
image_markdown(block, image_path) ==
    <<"!", "[">> \o block.diagram_name \o <<"]", "(">> \o image_path \o <<")">>

replace_plantuml_with_image(content, block, image_path) ==
    StrReplace(content, block.full_match, image_markdown(block, image_path))

(***************************************************************************)
(* cli.py                                                                  *)
(***************************************************************************)
\* f"{block['diagram_name']}-{block['hash']}.png"
image_filename(block) == block.diagram_name \o <<"-", block.hash, ".png">>

\* The directives put around the source whether they are there or not.
convert_content_always(puml_content) ==
    <<"@startuml", "\n">> \o Strip(puml_content) \o <<"\n", "@enduml">>

\* cli.py 23-27: the source as it is sent to the renderer.
convert_content(puml_content) ==
    LET content0 == Strip(puml_content)
        content1 == IF content0 # <<>> /\ Head(content0) = "@startuml"
                    THEN content0
                    ELSE <<"@startuml", "\n">> \o content0
    IN  IF content1[Len(content1)] = "@enduml"
        THEN content1
        ELSE content1 \o <<"\n", "@enduml">>

(***************************************************************************)
(* The state of a buildmarkdown invocation.                                *)
(***************************************************************************)
VARIABLES
    pc,             \* where the invocation stands: "start", "diagrams",
                    \* "images", "done" (returned) or "aborted" (click.Abort)
    run,            \* the number of this invocation on the file
    use_gcs,        \* config.use_gcs: GCSUploader, else ImageUploader
    content,        \* the local variable content
    disk,           \* the text of the markdown file on disk
    files,          \* the image files that exist beside the document
    puml_blocks,    \* the local variable puml_blocks
    images,         \* the local variable images
    idx,            \* the index of the next item of the running loop
    block_out,      \* how each attempted diagram block ended
    image_out,      \* how each attempted image ended, and the URL returned
    total_updated,  \* the local variable total_updated
    nwrites,        \* calls of file_path.write_text in this invocation
    initial,        \* the text the invocation read at its start
    scanned,        \* the text the invocation scanned for local images
    nfaults,        \* failures injected so far, over all invocations
    prev,           \* what the previous invocation left: its end, the items
                    \* that did not succeed in it, the calls it made
    rw,             \* the rewrite engine on its own: inputs and result
    echo_err,       \* the failure the last step reported, if any, and the
                    \* message it echoed for it
    opt,            \* the command, its options and what it finds configured
    ghost,          \* the Ghost backend: the post created, the document it
                    \* was built from, the featured image
    refrun          \* a finished buildmarkdown invocation that
                    \* process_markdown_images is compared with

vars == <<pc, run, use_gcs, content, disk, files, puml_blocks, images, idx,
          block_out, image_out, total_updated, nwrites, initial, scanned,
          nfaults, prev, rw, echo_err, opt, ghost, refrun>>

(***************************************************************************)
(* Documents: segments, each an image link or a diagram block.             *)
(***************************************************************************)
ImageLink(alt, ref) == <<"!", "[", alt, "]", "(">> \o ref \o <<")">>

\* ![a](img.png)
SegImg == ImageLink("a", <<"img", ".png">>)
\* ![b](assets/img.png)
SegNested == ImageLink("b", <<"assets/", "img", ".png">>)
\* A diagram that names itself: @startuml d / A / @enduml
SegNamed ==
    <<Fence, "plantuml", "\n", "@startuml", " ", "d", "\n", "A", "\n", "@enduml",
      "\n", Fence>>
\* A diagram without directives: B
SegBare == <<Fence, "plantuml", "\n", "B", "\n", Fence>>

Segments == {SegImg, SegNested, SegNamed, SegBare}

SeqsUpTo(S, n) == UNION {[1..k -> S] : k \in 0..n}

Docs == {Flatten(d) : d \in SeqsUpTo(Segments, MaxSegs)}

RerunDocs == {Flatten(d) : d \in SeqsUpTo(Segments, MaxRerunSegs)}

\* The image files beside the document when the first invocation starts.
ExistingFiles == {<<"img", ".png">>, <<"assets/", "img", ".png">>}

NoPrev ==
    [status |-> "none", failed_blocks |-> {}, failed_refs |-> {},
     call_failed |-> FALSE, calls |-> 0]

\* The step echoed no failure.
NoEcho == [failure |-> "none", error_msg |-> "none"]

\* How requests can fail the render call (cli.py 32-33): no response at all
\* (ConnectionError, Timeout: e.response is None), or an HTTP error status
\* (raise_for_status), the response with or without the header
\* x-plantuml-diagram-error.
RenderFailures == {"no_response", "http_error", "http_error_with_header"}

\* buildmarkdown on a markdown file, with PlantUML processing, the
\* credentials of Google Cloud at hand, Ghost not configured, and an upload
\* backend that answers with absolute URLs.
DefaultOpt(document) ==
    [command |-> "buildmarkdown", suffix_md |-> TRUE, no_plantuml |-> FALSE,
     no_images |-> FALSE, featured_image |-> FALSE, authenticated |-> TRUE,
     ghost_configured |-> FALSE, backend |-> "absolute", file |-> document]

\* No post was created.
NoGhost == [post |-> "none", source |-> <<>>, featured |-> "none"]

\* There is no invocation to compare with.
NoRef ==
    [status |-> "none", disk |-> <<>>, files |-> {}, block_out |-> <<>>,
     image_out |-> <<>>, calls |-> <<>>]

RwIdle ==
    [stage |-> "idle", fn |-> "none", text |-> <<>>, map |-> <<>>,
     block |-> <<>>, out |-> <<>>]

InitWith(documents, options) ==
    /\ pc = "start"
    /\ run = 1
    /\ use_gcs \in BOOLEAN
    /\ content = <<>>
    /\ disk \in documents
    /\ files = ExistingFiles
    /\ puml_blocks = <<>>
    /\ images = <<>>
    /\ idx = 1
    /\ block_out = <<>>
    /\ image_out = <<>>
    /\ total_updated = 0
    /\ nwrites = 0
    /\ initial = <<>>
    /\ scanned = <<>>
    /\ nfaults = 0
    /\ prev = NoPrev
    /\ echo_err = NoEcho
    /\ rw = RwIdle
    /\ \E o \in options : opt = [o EXCEPT !.file = disk]
    /\ ghost = NoGhost
    /\ refrun = NoRef

InitOn(documents) == InitWith(documents, {DefaultOpt(<<>>)})

Init == InitOn(Docs)

(***************************************************************************)
(* The collaborators.                                                      *)
(***************************************************************************)
DirTokens == {"assets/", "./", "../"}

RECURSIVE PathName(_)
\* Path.name: the last component of a path.
PathName(path) ==
    IF Len(path) > 1 /\ Head(path) \in DirTokens THEN PathName(Tail(path)) ELSE path

\* gcs_uploader.py: f"https://storage.googleapis.com/{bucket}/{blob_name}",
\* blob_name = f"public/blog/{folder}/{image_path.name}".
GCSUploader_upload_image(image_path) ==
    <<"https://", "storage.googleapis.com/bucket/public/blog/folder/">>
        \o PathName(image_path)

\* image_uploader.py: result.get('public_url'), the choice of the server;
\* the server of the model stores every file under its whole path and
\* answers with an absolute URL, or, as a backend may, with a path relative
\* to the site: the path of the file under assets/.
ImageUploader_upload_image(image_path) ==
    IF opt.backend = "relative"
    THEN <<"assets/">> \o image_path
    ELSE <<"http://", "cdn/">> \o image_path

\* What a successful uploader.upload_image(path, folder) may return.
UploadResults(image_path) ==
    IF use_gcs
    THEN {GCSUploader_upload_image(image_path)}
    ELSE {ImageUploader_upload_image(image_path)}

\* One more failure is injected.
Fault == nfaults < MaxFaults /\ nfaults' = nfaults + 1

(***************************************************************************)
(* buildmarkdown                                                           *)
(***************************************************************************)
\* The file is read and processed whatever its suffix and whether or not
\* the user is authenticated.
StartRun_Unchecked ==
    /\ pc = "start"
    /\ opt.command = "buildmarkdown"
    /\ content' = disk
    /\ initial' = disk
    /\ puml_blocks' = IF opt.no_plantuml THEN <<>> ELSE find_plantuml_blocks(disk)
    /\ idx' = 1
    /\ pc' = "diagrams"
    /\ echo_err' = NoEcho
    /\ UNCHANGED <<run, use_gcs, disk, files, images, block_out, image_out,
                   total_updated, nwrites, scanned, nfaults, prev, rw, opt, ghost,
                   refrun>>

\* The blocks are looked for and rendered whether or not --no-plantuml was
\* given.
StartRun_Plantuml ==
    /\ pc = "start"
    /\ opt.command = "buildmarkdown"
    /\ opt.suffix_md
    /\ use_gcs => opt.authenticated
    /\ content' = disk
    /\ initial' = disk
    /\ puml_blocks' = find_plantuml_blocks(disk)
    /\ idx' = 1
    /\ pc' = "diagrams"
    /\ echo_err' = NoEcho
    /\ UNCHANGED <<run, use_gcs, disk, files, images, block_out, image_out,
                   total_updated, nwrites, scanned, nfaults, prev, rw, opt, ghost,
                   refrun>>

\* cli.py 45-82: the file is a markdown file and, with GCS, the user is
\* authenticated; read the file and find the diagram blocks.  With
\* --no-plantuml no block is looked for and the loop of line 86 has nothing
\* to go through.
StartRun ==
    /\ pc = "start"
    /\ opt.command = "buildmarkdown"
    /\ opt.suffix_md
    /\ use_gcs => opt.authenticated
    /\ content' = disk
    /\ initial' = disk
    /\ puml_blocks' = IF opt.no_plantuml THEN <<>> ELSE find_plantuml_blocks(disk)
    /\ idx' = 1
    /\ pc' = "diagrams"
    /\ echo_err' = NoEcho
    /\ UNCHANGED <<run, use_gcs, disk, files, images, block_out, image_out,
                   total_updated, nwrites, scanned, nfaults, prev, rw, opt, ghost, refrun>>

\* cli.py 86-96: the block is rendered, the image stored, the document
\* rewritten and written.
DiagramOk ==
    /\ pc = "diagrams"
    /\ idx <= Len(puml_blocks)
    /\ LET block == puml_blocks[idx]
           new == replace_plantuml_with_image(content, block, image_filename(block))
       IN  /\ files' = files \cup {image_filename(block)}
           /\ content' = new
           /\ disk' = new
    /\ nwrites' = nwrites + 1
    /\ block_out' = Append(block_out, "ok")
    /\ idx' = idx + 1
    /\ echo_err' = NoEcho
    /\ UNCHANGED <<pc, run, use_gcs, puml_blocks, images, image_out,
                   total_updated, initial, scanned, nfaults, prev, rw, opt, ghost, refrun>>

\* The header of the failed response is not looked at.
error_msg_plain(failure) == "str(e)"

\* cli.py 99-102: str(e), replaced by the header of the failed response
\* when there is a response and it carries the header.
error_msg(failure) ==
    IF failure = "http_error_with_header"
    THEN "x-plantuml-diagram-error"
    ELSE "str(e)"

\* The failure escapes to the outer handler (cli.py 143-145), as it would
\* with no handler inside the loop.
DiagramRenderFail_Abort ==
    /\ Fault
    /\ pc = "diagrams"
    /\ idx <= Len(puml_blocks)
    /\ block_out' = Append(block_out, "render_failed")
    /\ \E failure \in RenderFailures :
           echo_err' = [failure |-> failure, error_msg |-> error_msg(failure)]
    /\ pc' = "aborted"
    /\ UNCHANGED <<run, use_gcs, content, disk, files, puml_blocks, images, idx,
                   image_out, total_updated, nwrites, initial, scanned, prev, rw, opt, ghost, refrun>>

\* cli.py 92, 98-103: requests raises a RequestException, which is reported.
DiagramRenderFail ==
    /\ Fault
    /\ pc = "diagrams"
    /\ idx <= Len(puml_blocks)
    /\ block_out' = Append(block_out, "render_failed")
    /\ \E failure \in RenderFailures :
           echo_err' = [failure |-> failure, error_msg |-> error_msg(failure)]
    /\ idx' = idx + 1
    /\ UNCHANGED <<pc, run, use_gcs, content, disk, files, puml_blocks, images,
                   image_out, total_updated, nwrites, initial, scanned, prev, rw, opt, ghost, refrun>>

\* cli.py 35, 143-145: output_path.write_bytes raises an OSError, which is
\* no RequestException: the outer handler aborts the invocation.  No image
\* file is left.
DiagramStoreFail ==
    /\ Fault
    /\ pc = "diagrams"
    /\ idx <= Len(puml_blocks)
    /\ block_out' = Append(block_out, "store_failed")
    /\ pc' = "aborted"
    /\ echo_err' = [failure |-> "os_error", error_msg |-> "str(e)"]
    /\ UNCHANGED <<run, use_gcs, content, disk, files, puml_blocks, images, idx,
                   image_out, total_updated, nwrites, initial, scanned, prev, rw, opt, ghost, refrun>>

\* cli.py 95-96, 143-145: file_path.write_text raises an OSError (the file
\* cannot be opened for writing) after the rewrite in memory: the outer
\* handler aborts the invocation.
DiagramWriteFail ==
    /\ Fault
    /\ pc = "diagrams"
    /\ idx <= Len(puml_blocks)
    /\ LET block == puml_blocks[idx] IN
           /\ files' = files \cup {image_filename(block)}
           /\ content' = replace_plantuml_with_image(content, block, image_filename(block))
    /\ nwrites' = nwrites + 1
    /\ block_out' = Append(block_out, "write_failed")
    /\ pc' = "aborted"
    /\ echo_err' = [failure |-> "os_error", error_msg |-> "str(e)"]
    /\ UNCHANGED <<run, use_gcs, disk, puml_blocks, images, idx, image_out,
                   total_updated, initial, scanned, prev, rw, opt, ghost, refrun>>

\* The images are looked for in the text read at the start, not in the file
\* as the diagram pass left it.
Rescan_Stale ==
    /\ pc = "diagrams"
    /\ idx > Len(puml_blocks)
    /\ content' = initial
    /\ scanned' = initial
    /\ images' = find_local_images(initial, files)
    /\ idx' = 1
    /\ total_updated' = 0
    /\ pc' = IF find_local_images(initial, files) = <<>> THEN "done" ELSE "images"
    /\ echo_err' = NoEcho
    /\ UNCHANGED <<run, use_gcs, disk, files, puml_blocks, block_out, image_out,
                   nwrites, initial, nfaults, prev, rw, opt, ghost, refrun>>

\* cli.py 108-120: the file is read again and scanned for local images; the
\* command returns when there is none.
Rescan ==
    /\ pc = "diagrams"
    /\ idx > Len(puml_blocks)
    /\ content' = disk
    /\ scanned' = disk
    /\ images' = find_local_images(disk, files)
    /\ idx' = 1
    /\ total_updated' = 0
    /\ pc' = IF find_local_images(disk, files) = <<>> THEN "done" ELSE "images"
    /\ echo_err' = NoEcho
    /\ UNCHANGED <<run, use_gcs, disk, files, puml_blocks, block_out, image_out,
                   nwrites, initial, nfaults, prev, rw, opt, ghost, refrun>>

\* The loop of cli.py 123 moves to the next image, or ends (140-141).
NextImage ==
    /\ idx' = idx + 1
    /\ pc' = IF idx + 1 > Len(images) THEN "done" ELSE "images"

\* The rewrite stays in memory: the document is not written after the item.
UploadOk_NoWrite ==
    /\ pc = "images"
    /\ idx <= Len(images)
    /\ \E public_url \in UploadResults(images[idx].path) :
           LET r == replace_urls(content,
                        <<[key |-> images[idx].original, url |-> public_url]>>)
           IN  /\ ~r.err
               /\ image_out' = Append(image_out, [res |-> "ok", url |-> public_url])
               /\ content' = r.text
               /\ total_updated' = total_updated + 1
    /\ NextImage
    /\ echo_err' = NoEcho
    /\ UNCHANGED <<run, use_gcs, disk, files, puml_blocks, images, block_out,
                   nwrites, initial, scanned, nfaults, prev, rw, opt, ghost, refrun>>

\* cli.py 125-135: the image is uploaded, the link rewritten, the document
\* written.  A replace_urls that raises is caught like a failed upload.
UploadOk ==
    /\ pc = "images"
    /\ idx <= Len(images)
    /\ \E public_url \in UploadResults(images[idx].path) :
           LET r == replace_urls(content,
                        <<[key |-> images[idx].original, url |-> public_url]>>)
           IN  IF r.err
               THEN /\ image_out' = Append(image_out,
                                        [res |-> "rewrite_failed", url |-> public_url])
                    /\ echo_err' = [failure |-> "upload_error", error_msg |-> "str(e)"]
                    /\ UNCHANGED <<content, disk, total_updated, nwrites>>
               ELSE /\ image_out' = Append(image_out,
                                        [res |-> "ok", url |-> public_url])
                    /\ echo_err' = NoEcho
                    /\ content' = r.text
                    /\ disk' = r.text
                    /\ total_updated' = total_updated + 1
                    /\ nwrites' = nwrites + 1
    /\ NextImage
    /\ UNCHANGED <<run, use_gcs, files, puml_blocks, images, block_out, initial,
                   scanned, nfaults, prev, rw, opt, ghost, refrun>>

\* The failure escapes to the outer handler (cli.py 143-145), as it would
\* with no handler inside the loop.
UploadFail_Abort ==
    /\ Fault
    /\ pc = "images"
    /\ idx <= Len(images)
    /\ image_out' = Append(image_out, [res |-> "upload_failed", url |-> <<>>])
    /\ pc' = "aborted"
    /\ echo_err' = [failure |-> "upload_error", error_msg |-> "str(e)"]
    /\ UNCHANGED <<run, use_gcs, content, disk, files, puml_blocks, images, idx,
                   block_out, total_updated, nwrites, initial, scanned, prev, rw, opt, ghost, refrun>>

\* The document is written after the item whether the upload succeeded or
\* not, as if the write stood behind the handler.
UploadFail_Write ==
    /\ Fault
    /\ pc = "images"
    /\ idx <= Len(images)
    /\ image_out' = Append(image_out, [res |-> "upload_failed", url |-> <<>>])
    /\ NextImage
    /\ disk' = content
    /\ nwrites' = nwrites + 1
    /\ echo_err' = [failure |-> "upload_error", error_msg |-> "str(e)"]
    /\ UNCHANGED <<run, use_gcs, content, files, puml_blocks, images,
                   block_out, total_updated, initial, scanned, prev, rw, opt, ghost, refrun>>

\* cli.py 125, 137-138: uploader.upload_image raises.
UploadFail ==
    /\ Fault
    /\ pc = "images"
    /\ idx <= Len(images)
    /\ image_out' = Append(image_out, [res |-> "upload_failed", url |-> <<>>])
    /\ NextImage
    /\ echo_err' = [failure |-> "upload_error", error_msg |-> "str(e)"]
    /\ UNCHANGED <<run, use_gcs, content, disk, files, puml_blocks, images,
                   block_out, total_updated, nwrites, initial, scanned, prev, rw, opt, ghost, refrun>>

\* cli.py 130-133, 137-138: file_path.write_text raises an OSError (the file
\* cannot be opened for writing) after content was reassigned; the handler
\* reports it as a failed upload and the loop goes on.
ImageWriteFail ==
    /\ Fault
    /\ pc = "images"
    /\ idx <= Len(images)
    /\ \E public_url \in UploadResults(images[idx].path) :
           LET r == replace_urls(content,
                        <<[key |-> images[idx].original, url |-> public_url]>>)
           IN  /\ ~r.err
               /\ content' = r.text
               /\ image_out' = Append(image_out,
                                   [res |-> "write_failed", url |-> public_url])
    /\ nwrites' = nwrites + 1
    /\ NextImage
    /\ echo_err' = [failure |-> "os_error", error_msg |-> "str(e)"]
    /\ UNCHANGED <<run, use_gcs, disk, files, puml_blocks, images, block_out,
                   total_updated, initial, scanned, prev, rw, opt, ghost, refrun>>

Terminal == {"done", "aborted"}

\* The items of the invocation that did not succeed.
FailedBlocks ==
    {puml_blocks[i].full_match : i \in {k \in 1..Len(block_out) : block_out[k] # "ok"}}

FailedRefs ==
    {images[i].original : i \in {k \in 1..Len(image_out) : image_out[k].res # "ok"}}

\* A render call or an upload call of the invocation failed.
CallFailed ==
    \/ \E i \in 1..Len(block_out) : block_out[i] = "render_failed"
    \/ \E k \in 1..Len(image_out) : image_out[k].res = "upload_failed"

\* The command is invoked again on the file as the last invocation left it.
Rerun ==
    /\ pc \in Terminal
    /\ run < MaxRuns
    /\ run' = run + 1
    /\ prev' = [status |-> pc, failed_blocks |-> FailedBlocks,
                failed_refs |-> FailedRefs,
                call_failed |-> CallFailed,
                calls |-> Len(block_out) + Len(image_out)]
    /\ pc' = "start"
    /\ content' = <<>>
    /\ puml_blocks' = <<>>
    /\ images' = <<>>
    /\ idx' = 1
    /\ block_out' = <<>>
    /\ image_out' = <<>>
    /\ total_updated' = 0
    /\ nwrites' = 0
    /\ initial' = <<>>
    /\ scanned' = <<>>
    /\ echo_err' = NoEcho
    /\ opt' = [opt EXCEPT !.file = disk]
    /\ UNCHANGED <<use_gcs, disk, files, nfaults, rw, ghost, refrun>>

\* One invocation of buildmarkdown.
Next ==
    \/ StartRun
    \/ DiagramOk
    \/ DiagramRenderFail
    \/ DiagramStoreFail
    \/ DiagramWriteFail
    \/ Rescan
    \/ UploadOk
    \/ UploadFail
    \/ ImageWriteFail

Spec == Init /\ [][Next]_vars

\* cli.py 47-49: the file is no markdown file.
AbortNotMarkdown ==
    /\ pc = "start"
    /\ opt.command = "buildmarkdown"
    /\ ~opt.suffix_md
    /\ pc' = "aborted"
    /\ echo_err' = [failure |-> "not_markdown", error_msg |-> "is not a markdown file"]
    /\ UNCHANGED <<run, use_gcs, content, disk, files, puml_blocks, images, idx,
                   block_out, image_out, total_updated, nwrites, initial, scanned,
                   nfaults, prev, rw, opt, ghost, refrun>>

\* cli.py 62-68: GCS is configured and the user is not authenticated.
AbortNotAuthenticated ==
    /\ pc = "start"
    /\ opt.command = "buildmarkdown"
    /\ opt.suffix_md
    /\ use_gcs
    /\ ~opt.authenticated
    /\ pc' = "aborted"
    /\ echo_err' = [failure |-> "not_authenticated",
                    error_msg |-> "Not authenticated with Google Cloud."]
    /\ UNCHANGED <<run, use_gcs, content, disk, files, puml_blocks, images, idx,
                   block_out, image_out, total_updated, nwrites, initial, scanned,
                   nfaults, prev, rw, opt, ghost, refrun>>


\* Invocations one after the other on the same file.
InitRerun == InitOn(RerunDocs)

NextRerun == Next \/ Rerun

SpecRerun == InitRerun /\ [][NextRerun]_vars

(***************************************************************************)
(* process_markdown_images and publish                                     *)
(***************************************************************************)
\* cli.py 154-161: with GCS and no credentials uploader stays None.
HasUploader == ~use_gcs \/ opt.authenticated

\* The collaborators answer a call of process_markdown_images as they
\* answered the same call of the invocation it is compared with, when there
\* is one and it made that call.
ReplaysBlock(outcome) ==
    IF refrun.status = "none" \/ idx > Len(refrun.block_out)
    THEN TRUE
    ELSE refrun.block_out[idx] = outcome

ReplaysImage(outcomes, public_url) ==
    IF refrun.status = "none" \/ idx > Len(refrun.image_out)
    THEN TRUE
    ELSE /\ refrun.image_out[idx].res \in outcomes
         /\ refrun.image_out[idx].url = public_url

\* publish is past its checks and calls process_markdown_images (cli.py
\* 216-234).
PublishProcesses ==
    /\ pc = "start"
    /\ opt.command = "publish"
    /\ opt.suffix_md
    /\ opt.ghost_configured
    /\ ~opt.no_images

\* cli.py 150-165: read the file, choose the uploader, find the diagram
\* blocks unless skip_plantuml.
PmiStart ==
    /\ IF pc = "pmi_start" THEN TRUE ELSE PublishProcesses
    /\ content' = disk
    /\ initial' = disk
    /\ puml_blocks' = IF opt.no_plantuml THEN <<>> ELSE find_plantuml_blocks(disk)
    /\ idx' = 1
    /\ pc' = "pmi_diagrams"
    /\ echo_err' = NoEcho
    /\ UNCHANGED <<run, use_gcs, disk, files, images, block_out, image_out,
                   total_updated, nwrites, scanned, nfaults, prev, rw, opt, ghost,
                   refrun>>

\* cli.py 168-178: the block is rendered, the image stored, the document
\* rewritten and written.
PmiDiagramOk ==
    /\ pc = "pmi_diagrams"
    /\ idx <= Len(puml_blocks)
    /\ ReplaysBlock("ok")
    /\ LET block == puml_blocks[idx]
           new == replace_plantuml_with_image(content, block, image_filename(block))
       IN  /\ files' = files \cup {image_filename(block)}
           /\ content' = new
           /\ disk' = new
    /\ nwrites' = nwrites + 1
    /\ block_out' = Append(block_out, "ok")
    /\ idx' = idx + 1
    /\ echo_err' = NoEcho
    /\ UNCHANGED <<pc, run, use_gcs, puml_blocks, images, image_out,
                   total_updated, initial, scanned, nfaults, prev, rw, opt, ghost,
                   refrun>>

\* cli.py 174, 179-184: requests raises a RequestException, which is
\* reported.
PmiDiagramRenderFail ==
    /\ Fault
    /\ pc = "pmi_diagrams"
    /\ idx <= Len(puml_blocks)
    /\ ReplaysBlock("render_failed")
    /\ block_out' = Append(block_out, "render_failed")
    /\ \E failure \in RenderFailures :
           echo_err' = [failure |-> failure, error_msg |-> error_msg(failure)]
    /\ idx' = idx + 1
    /\ UNCHANGED <<pc, run, use_gcs, content, disk, files, puml_blocks, images,
                   image_out, total_updated, nwrites, initial, scanned, prev, rw,
                   opt, ghost, refrun>>

\* cli.py 35, 174: output_path.write_bytes raises an OSError, which the
\* function does not catch: it leaves process_markdown_images, and publish
\* aborts (cli.py 255-257).
PmiDiagramStoreFail ==
    /\ Fault
    /\ pc = "pmi_diagrams"
    /\ idx <= Len(puml_blocks)
    /\ ReplaysBlock("store_failed")
    /\ block_out' = Append(block_out, "store_failed")
    /\ pc' = "aborted"
    /\ echo_err' = [failure |-> "os_error", error_msg |-> "str(e)"]
    /\ UNCHANGED <<run, use_gcs, content, disk, files, puml_blocks, images, idx,
                   image_out, total_updated, nwrites, initial, scanned, prev, rw,
                   opt, ghost, refrun>>

\* cli.py 177-178: file_path.write_text raises an OSError after the rewrite
\* in memory; the function does not catch it.
PmiDiagramWriteFail ==
    /\ Fault
    /\ pc = "pmi_diagrams"
    /\ idx <= Len(puml_blocks)
    /\ ReplaysBlock("write_failed")
    /\ LET block == puml_blocks[idx] IN
           /\ files' = files \cup {image_filename(block)}
           /\ content' = replace_plantuml_with_image(content, block, image_filename(block))
    /\ nwrites' = nwrites + 1
    /\ block_out' = Append(block_out, "write_failed")
    /\ pc' = "aborted"
    /\ echo_err' = [failure |-> "os_error", error_msg |-> "str(e)"]
    /\ UNCHANGED <<run, use_gcs, disk, puml_blocks, images, idx, image_out,
                   total_updated, initial, scanned, prev, rw, opt, ghost, refrun>>

\* The images are looked for in the text read at the start.
PmiRescan_Stale ==
    /\ pc = "pmi_diagrams"
    /\ idx > Len(puml_blocks)
    /\ content' = initial
    /\ scanned' = initial
    /\ images' = IF HasUploader THEN find_local_images(initial, files) ELSE <<>>
    /\ idx' = 1
    /\ pc' = IF HasUploader /\ find_local_images(initial, files) # <<>>
             THEN "pmi_images" ELSE "returned"
    /\ echo_err' = NoEcho
    /\ UNCHANGED <<run, use_gcs, disk, files, puml_blocks, block_out, image_out,
                   total_updated, nwrites, initial, nfaults, prev, rw, opt, ghost,
                   refrun>>

\* cli.py 187-193, 204: the file is read again and, when there is an
\* uploader, scanned for local images; the function returns when there is
\* nothing to upload.
PmiRescan ==
    /\ pc = "pmi_diagrams"
    /\ idx > Len(puml_blocks)
    /\ content' = disk
    /\ scanned' = disk
    /\ images' = IF HasUploader THEN find_local_images(disk, files) ELSE <<>>
    /\ idx' = 1
    /\ pc' = IF HasUploader /\ find_local_images(disk, files) # <<>>
             THEN "pmi_images" ELSE "returned"
    /\ echo_err' = NoEcho
    /\ UNCHANGED <<run, use_gcs, disk, files, puml_blocks, block_out, image_out,
                   total_updated, nwrites, initial, nfaults, prev, rw, opt, ghost,
                   refrun>>

\* The loop of cli.py 194 moves to the next image, or ends and the function
\* returns (204).
PmiNextImage ==
    /\ idx' = idx + 1
    /\ pc' = IF idx + 1 > Len(images) THEN "returned" ELSE "pmi_images"

\* cli.py 196-200: the image is uploaded, the link rewritten, the document
\* written.  A replace_urls that raises is caught like a failed upload.
PmiUploadOk ==
    /\ pc = "pmi_images"
    /\ idx <= Len(images)
    /\ \E public_url \in UploadResults(images[idx].path) :
           LET r == replace_urls(content,
                        <<[key |-> images[idx].original, url |-> public_url]>>)
           IN  /\ ReplaysImage({"ok", "rewrite_failed"}, public_url)
               /\ IF r.err
                  THEN /\ image_out' = Append(image_out,
                                           [res |-> "rewrite_failed", url |-> public_url])
                       /\ echo_err' = [failure |-> "upload_error", error_msg |-> "str(e)"]
                       /\ UNCHANGED <<content, disk, nwrites>>
                  ELSE /\ image_out' = Append(image_out,
                                           [res |-> "ok", url |-> public_url])
                       /\ echo_err' = NoEcho
                       /\ content' = r.text
                       /\ disk' = r.text
                       /\ nwrites' = nwrites + 1
    /\ PmiNextImage
    /\ UNCHANGED <<run, use_gcs, files, puml_blocks, images, block_out,
                   total_updated, initial, scanned, nfaults, prev, rw, opt, ghost,
                   refrun>>

\* cli.py 196, 201-202: uploader.upload_image raises.
PmiUploadFail ==
    /\ Fault
    /\ pc = "pmi_images"
    /\ idx <= Len(images)
    /\ ReplaysImage({"upload_failed"}, <<>>)
    /\ image_out' = Append(image_out, [res |-> "upload_failed", url |-> <<>>])
    /\ PmiNextImage
    /\ echo_err' = [failure |-> "upload_error", error_msg |-> "str(e)"]
    /\ UNCHANGED <<run, use_gcs, content, disk, files, puml_blocks, images,
                   block_out, total_updated, nwrites, initial, scanned, prev, rw,
                   opt, ghost, refrun>>

\* cli.py 199-202: file_path.write_text raises an OSError after content was
\* reassigned; the handler reports it as a failed upload and the loop goes
\* on.
PmiImageWriteFail ==
    /\ Fault
    /\ pc = "pmi_images"
    /\ idx <= Len(images)
    /\ \E public_url \in UploadResults(images[idx].path) :
           LET r == replace_urls(content,
                        <<[key |-> images[idx].original, url |-> public_url]>>)
           IN  /\ ReplaysImage({"write_failed"}, public_url)
               /\ ~r.err
               /\ content' = r.text
               /\ image_out' = Append(image_out,
                                   [res |-> "write_failed", url |-> public_url])
    /\ nwrites' = nwrites + 1
    /\ PmiNextImage
    /\ echo_err' = [failure |-> "os_error", error_msg |-> "str(e)"]
    /\ UNCHANGED <<run, use_gcs, disk, files, puml_blocks, images, block_out,
                   total_updated, initial, scanned, prev, rw, opt, ghost, refrun>>

\* process_markdown_images from its call to its return or its exception.
NextPmi ==
    \/ PmiStart
    \/ PmiDiagramOk
    \/ PmiDiagramRenderFail
    \/ PmiDiagramStoreFail
    \/ PmiDiagramWriteFail
    \/ PmiRescan
    \/ PmiUploadOk
    \/ PmiUploadFail
    \/ PmiImageWriteFail

\* publish is past the processing, or past its checks with --no-images
\* (cli.py 232-236).
PublishReady ==
    /\ opt.command = "publish"
    /\ IF pc = "start"
       THEN opt.suffix_md /\ opt.ghost_configured /\ opt.no_images
       ELSE pc = "returned"

\* cli.py 216-226: the file is no markdown file, or the Ghost URL or the
\* admin key is not configured.
PublishAbort ==
    /\ pc = "start"
    /\ opt.command = "publish"
    /\ ~(opt.suffix_md /\ opt.ghost_configured)
    /\ pc' = "aborted"
    /\ echo_err' = IF ~opt.suffix_md
                   THEN [failure |-> "not_markdown", error_msg |-> "is not a markdown file"]
                   ELSE [failure |-> "not_configured", error_msg |-> "Ghost API not configured."]
    /\ UNCHANGED <<run, use_gcs, content, disk, files, puml_blocks, images, idx,
                   block_out, image_out, total_updated, nwrites, initial, scanned,
                   nfaults, prev, rw, opt, ghost, refrun>>

\* The post is built from the text read before the processing.
GhostPublishOk_Stale ==
    /\ PublishReady
    /\ ghost' = [post |-> "created",
                 source |-> IF pc = "start" THEN disk ELSE initial,
                 featured |-> "none"]
    /\ pc' = IF opt.featured_image THEN "featured" ELSE "done"
    /\ echo_err' = NoEcho
    /\ UNCHANGED <<run, use_gcs, content, disk, files, puml_blocks, images, idx,
                   block_out, image_out, total_updated, nwrites, initial, scanned,
                   nfaults, prev, rw, opt, refrun>>

\* cli.py 237-244, ghost_client.py 174-202: publish_markdown reads the file
\* and creates the post from it.
GhostPublishOk ==
    /\ PublishReady
    /\ ghost' = [post |-> "created", source |-> disk, featured |-> "none"]
    /\ pc' = IF opt.featured_image THEN "featured" ELSE "done"
    /\ echo_err' = NoEcho
    /\ UNCHANGED <<run, use_gcs, content, disk, files, puml_blocks, images, idx,
                   block_out, image_out, total_updated, nwrites, initial, scanned,
                   nfaults, prev, rw, opt, refrun>>

\* ghost_client.py 122-127, cli.py 255-257: no post is created.
GhostPublishFail ==
    /\ Fault
    /\ PublishReady
    /\ ghost' = [ghost EXCEPT !.post = "failed"]
    /\ pc' = "aborted"
    /\ echo_err' = [failure |-> "ghost_error", error_msg |-> "str(e)"]
    /\ UNCHANGED <<run, use_gcs, content, disk, files, puml_blocks, images, idx,
                   block_out, image_out, total_updated, nwrites, initial, scanned,
                   prev, rw, opt, refrun>>

\* cli.py 247-250, ghost_client.py 161-172: the featured image is uploaded
\* and the post updated with its URL.
FeaturedImageOk ==
    /\ pc = "featured"
    /\ ghost' = [ghost EXCEPT !.featured = "set"]
    /\ pc' = "done"
    /\ echo_err' = NoEcho
    /\ UNCHANGED <<run, use_gcs, content, disk, files, puml_blocks, images, idx,
                   block_out, image_out, total_updated, nwrites, initial, scanned,
                   nfaults, prev, rw, opt, refrun>>

\* ghost_client.py 156-157, 137-138: the upload of the featured image
\* fails, or the update of the post after it.
FeaturedImageFail ==
    /\ Fault
    /\ pc = "featured"
    /\ \E failure \in {"upload_failed", "update_failed"} :
           ghost' = [ghost EXCEPT !.featured = failure]
    /\ pc' = "aborted"
    /\ echo_err' = [failure |-> "ghost_error", error_msg |-> "str(e)"]
    /\ UNCHANGED <<run, use_gcs, content, disk, files, puml_blocks, images, idx,
                   block_out, image_out, total_updated, nwrites, initial, scanned,
                   prev, rw, opt, refrun>>

\* publish outside process_markdown_images.
NextPublish ==
    \/ PublishAbort
    \/ GhostPublishOk
    \/ GhostPublishFail
    \/ FeaturedImageOk
    \/ FeaturedImageFail

\* The commands with their options, on a file of any suffix, with or
\* without the credentials and the Ghost configuration, and with an upload
\* backend of either kind.
CmdDocs == {Flatten(d) : d \in SeqsUpTo(Segments, MaxCmdSegs)}

CmdOptions ==
    {[DefaultOpt(<<>>) EXCEPT !.suffix_md = s, !.no_plantuml = n,
                              !.authenticated = a, !.backend = b] :
        s \in BOOLEAN, n \in BOOLEAN, a \in BOOLEAN,
        b \in {"absolute", "relative"}}
    \cup
    {[DefaultOpt(<<>>) EXCEPT !.command = "publish", !.suffix_md = s,
                              !.no_plantuml = n, !.authenticated = a,
                              !.no_images = i, !.featured_image = f,
                              !.ghost_configured = g] :
        s \in BOOLEAN, n \in BOOLEAN, a \in BOOLEAN, i \in BOOLEAN,
        f \in BOOLEAN, g \in BOOLEAN}

\* The backend answers an ImageUploader only, and the credentials are asked
\* for with GCS only.
InitCommand ==
    /\ InitWith(CmdDocs, CmdOptions)
    /\ use_gcs => opt.backend = "absolute"
    /\ ~use_gcs => opt.authenticated

NextCommand ==
    \/ Next
    \/ AbortNotMarkdown
    \/ AbortNotAuthenticated
    \/ NextPmi
    \/ NextPublish

SpecCommand == InitCommand /\ [][NextCommand]_vars

(***************************************************************************)
(* Properties of one invocation.                                           *)
(***************************************************************************)
\* The image references found by the scan are pairwise distinct strings.
DistinctRefs ==
    \A i, j \in 1..Len(images) : i # j => images[i].original # images[j].original

\* The images attempted so far that ended as given.
ImagesEnded(res) == {k \in 1..Len(image_out) : image_out[k].res = res}

\* Every attempted image was uploaded and written, or its upload failed.
OnlyUploadFailures ==
    \A k \in 1..Len(image_out) : image_out[k].res \in {"ok", "upload_failed"}

RECURSIVE RewrittenFrom(_, _, _, _)
\* text[from..] with the reference of each link of links replaced by the URL
\* returned for it when its item succeeded, link by link at its own place.
RewrittenFrom(text, from, links, outs) ==
    IF links = <<>> THEN SubSeq(text, from, Len(text))
    ELSE LET m == Head(links)
             ref_start == m.match_end - Len(m.original)
         IN  SubSeq(text, from, ref_start - 1)
             \o (IF Head(outs).res = "ok" THEN Head(outs).url ELSE m.original)
             \o RewrittenFrom(text, m.match_end, Tail(links), Tail(outs))

\* The image links of a text that point at a remote URL.
RemoteLinks(text) ==
    SelectSeq(finditer_images(text), LAMBDA m : m.original[1] \in RemoteSchemes)

\* C1: partial-failure resilience of the image pass.  When the references
\* found are pairwise distinct and every item either succeeded or failed in
\* its upload, the finished invocation leaves, in memory and on disk, the
\* scanned text with exactly the succeeded references replaced by their
\* returned URLs and the failed ones as they were; with three images and one
\* failed upload, one local reference is left and two links are remote.
C1_PartialFailure ==
    (pc = "done" /\ DistinctRefs /\ OnlyUploadFailures) =>
        /\ content = RewrittenFrom(scanned, 1, images, image_out)
        /\ disk = RewrittenFrom(scanned, 1, images, image_out)
        /\ (Len(images) = 3 /\ Cardinality(ImagesEnded("upload_failed")) = 1) =>
               /\ Len(find_local_images(disk, files)) = 1
               /\ \A k \in ImagesEnded("upload_failed") :
                      find_local_images(disk, files)[1].original = images[k].original
               /\ Len(RemoteLinks(disk)) = 2
               /\ \A k \in ImagesEnded("ok") :
                      \E n \in 1..2 : RemoteLinks(disk)[n].original = image_out[k].url

\* Three images with distinct references, one upload failed, two succeeded.
C1_Witness ==
    /\ pc = "done"
    /\ Len(images) = 3
    /\ DistinctRefs
    /\ Cardinality(ImagesEnded("upload_failed")) = 1
    /\ Cardinality(ImagesEnded("ok")) = 2

RECURSIVE BlocksApplied(_, _)
\* text after the rewrites of the succeeded blocks among the first n.
BlocksApplied(text, n) ==
    IF n = 0 THEN text
    ELSE LET t == BlocksApplied(text, n - 1) IN
         IF block_out[n] = "ok"
         THEN replace_plantuml_with_image(t, puml_blocks[n], image_filename(puml_blocks[n]))
         ELSE t

RECURSIVE ImagesApplied(_, _)
\* text after the rewrites of the succeeded images among the first n.
ImagesApplied(text, n) ==
    IF n = 0 THEN text
    ELSE LET t == ImagesApplied(text, n - 1) IN
         IF image_out[n].res = "ok"
         THEN replace_urls(t, <<[key |-> images[n].original,
                                 url |-> image_out[n].url]>>).text
         ELSE t

\* The initial text with the rewrites of the items that succeeded so far.
Committed == ImagesApplied(BlocksApplied(initial, Len(block_out)), Len(image_out))

\* C2: persist-per-item.  Whenever the invocation is about to start an item
\* or has returned, the file on disk equals the text in memory, which is the
\* initial text with exactly the rewrites of the succeeded items applied.
C2_PersistPerItem ==
    pc \in {"diagrams", "images", "done"} =>
        /\ disk = content
        /\ content = Committed

\* C3: an item whose write to disk failed is not committed: it is not
\* counted as updated, and its link (its reference being that of no other
\* item) stays on disk as it was, whatever the later items write.
C3_FailedWriteNotCommitted ==
    \A k \in ImagesEnded("write_failed") :
        /\ total_updated = Cardinality(ImagesEnded("ok"))
        /\ (\A j \in 1..Len(images) :
                j # k => images[j].original # images[k].original)
           => \E n \in 1..Len(finditer_images(disk)) :
                  finditer_images(disk)[n].original = images[k].original

\* C4: a diagram block that fails - the render call fails or the rendered
\* bytes cannot be stored - does not end the invocation: the document keeps
\* the block, and the image pass starts with every block attempted.
C4_DiagramFailureIsolated ==
    /\ (block_out # <<>> /\ block_out[Len(block_out)] \in {"render_failed", "store_failed"})
       => /\ pc # "aborted"
          /\ Contains(disk, puml_blocks[Len(block_out)].full_match)
             \/ \E i \in 1..Len(block_out) :
                    /\ block_out[i] = "ok"
                    /\ puml_blocks[i].full_match = puml_blocks[Len(block_out)].full_match
    /\ pc \in {"images", "done"} => Len(block_out) = Len(puml_blocks)

\* C5: a failed upload changes nothing.  The step that records a failed
\* upload leaves the text in memory, the file on disk, the count of writes,
\* the count of updated links and the image files as they were, and goes on
\* to the next image (or returns after the last one).
C5_FailedUploadChangesNothing ==
    [][(/\ Len(image_out') = Len(image_out) + 1
        /\ image_out'[Len(image_out')].res = "upload_failed")
       => /\ content' = content
          /\ disk' = disk
          /\ nwrites' = nwrites
          /\ total_updated' = total_updated
          /\ files' = files
          /\ images' = images
          /\ idx' = idx + 1
          /\ pc' = IF idx' > Len(images) THEN "done" ELSE "images"]_vars

\* An upload failed and the pass went on to a later image.
C5_Witness ==
    \E k \in ImagesEnded("upload_failed") : k < Len(image_out)

\* C7: pass ordering and re-scan.  The image pass starts only when every
\* diagram block found has been attempted; the images are those found in the
\* text that holds every succeeded diagram rewrite; the link a diagram
\* rewrite created is among them, and every image found gets its upload call
\* before the invocation returns.
C7_PassOrderAndRescan ==
    /\ pc \in {"images", "done"} =>
           /\ Len(block_out) = Len(puml_blocks)
           /\ scanned = BlocksApplied(initial, Len(puml_blocks))
           /\ images = find_local_images(scanned, files)
           /\ \A i \in 1..Len(puml_blocks) :
                  block_out[i] = "ok" =>
                      \E k \in 1..Len(images) :
                          images[k].original = image_filename(puml_blocks[i])
    /\ pc = "done" => Len(image_out) = Len(images)

\* A diagram was rendered and the link its rewrite created was uploaded in
\* the same invocation.
C7_Witness ==
    /\ pc = "done"
    /\ \E i \in 1..Len(puml_blocks) :
           /\ block_out[i] = "ok"
           /\ \E k \in 1..Len(image_out) :
                  /\ images[k].original = image_filename(puml_blocks[i])
                  /\ image_out[k].res = "ok"

\* Every failure so far is a collaborator's: a render call or an upload.
OnlyCollaboratorErrors ==
    /\ \A i \in 1..Len(block_out) : block_out[i] \in {"ok", "render_failed"}
    /\ \A k \in 1..Len(image_out) : image_out[k].res \in {"ok", "upload_failed"}

\* C8: item-level failures are not fatal.  While the only failures are
\* failed render and upload calls, the invocation is not aborted, and when
\* it has returned every block and every image found has been attempted.
C8_ItemFailuresNotFatal ==
    OnlyCollaboratorErrors =>
        /\ pc # "aborted"
        /\ pc = "done" => /\ Len(block_out) = Len(puml_blocks)
                          /\ Len(image_out) = Len(images)

\* The invocation returned although every render and every upload failed.
C8_Witness ==
    /\ pc = "done"
    /\ block_out # <<>>
    /\ image_out # <<>>
    /\ \A i \in 1..Len(block_out) : block_out[i] = "render_failed"
    /\ \A k \in 1..Len(image_out) : image_out[k].res = "upload_failed"

(***************************************************************************)
(* Properties of one invocation after another.                             *)
(***************************************************************************)
\* The invocation has read the file: its blocks are found.
Scanned == pc \in {"diagrams", "images", "done", "aborted"}

\* What the invocation finds in the file it has read.
FoundBlocks == {puml_blocks[i].full_match : i \in 1..Len(puml_blocks)}

FoundRefs ==
    {find_local_images(initial, files)[k].original :
         k \in 1..Len(find_local_images(initial, files))}

\* The invocation found nothing, called no collaborator and wrote nothing.
NothingToDo ==
    /\ pc # "aborted"
    /\ FoundBlocks = {}
    /\ FoundRefs = {}
    /\ block_out = <<>>
    /\ image_out = <<>>
    /\ nwrites = 0
    /\ disk = initial
    /\ pc \in {"images", "done"} => images = <<>>

\* C6 as stated: after an invocation that returned with no failed render
\* call and no failed upload call, the next invocation finds no block and
\* no local image, calls no collaborator and leaves the document as it is.
C6_AsStated ==
    (run > 1 /\ Scanned /\ prev.status = "done" /\ ~prev.call_failed)
        => NothingToDo

\* C6: re-runnability.  After an invocation that returned with every item
\* succeeded - rendered, stored, uploaded and written to the document - the
\* next invocation finds no block and no local image, calls no collaborator
\* and leaves the document as it is; after an invocation that returned with
\* items that did not succeed, the next one finds only those items.
C6_Rerunnable ==
    (run > 1 /\ Scanned /\ prev.status = "done") =>
        /\ FoundBlocks \subseteq prev.failed_blocks
        /\ FoundRefs \subseteq prev.failed_refs
        /\ (prev.failed_blocks = {} /\ prev.failed_refs = {}) => NothingToDo

\* The second invocation returned after a first one that rendered a diagram
\* and uploaded images, every item succeeded.
C6_Witness ==
    /\ run > 1
    /\ pc = "done"
    /\ prev.status = "done"
    /\ prev.failed_blocks = {}
    /\ prev.failed_refs = {}
    /\ prev.calls >= 2
    /\ \E n \in 1..Len(finditer_images(disk)) :
           Head(finditer_images(disk)[n].original) \in RemoteSchemes

(***************************************************************************)
(* The rewrite engine on its own: replace_urls and                         *)
(* replace_plantuml_with_image applied to texts, mappings and blocks.      *)
(***************************************************************************)
SegText == <<"see", " ", "img", ".png">>
SegLink == <<"[", "t", "]", "(", "img", ".png", ")">>
\* An opening fence and a body with no closing fence.
SegOpen == <<Fence, "plantuml", "\n", "B", "\n">>
RwSegments == {SegImg, SegNested, SegText, SegLink, SegBare, SegOpen}
RwTexts == {Flatten(d) : d \in SeqsUpTo(RwSegments, MaxRwSegs)}

\* The entries of a mapping: a reference and the target it is mapped to.
RwEntries ==
    {[key |-> <<"img", ".png">>, url |-> u] :
         u \in {<<"WRONG">>, <<"9", ".png">>, <<"2024/", "i", ".png">>}}
    \cup {[key |-> <<"assets/", "img", ".png">>, url |-> u] :
         u \in {<<"RIGHT">>, <<"https://", "cdn/", "img", ".png">>}}
    \cup {[key |-> <<"gone", ".png">>, url |-> u] :
         u \in {<<"WRONG">>, <<"9", ".png">>}}

\* A dict in insertion order: its keys are distinct.
RwMaps ==
    {<<>>} \cup {<<e>> : e \in RwEntries}
    \cup {<<p[1], p[2]>> : p \in {q \in RwEntries \X RwEntries : q[1].key # q[2].key}}

RwBlocks == {find_plantuml_blocks(SegBare)[1], find_plantuml_blocks(SegNamed)[1]}

InitRewrite ==
    /\ pc = "rewrite"
    /\ run = 1
    /\ use_gcs = FALSE
    /\ content = <<>>
    /\ disk = <<>>
    /\ files = {}
    /\ puml_blocks = <<>>
    /\ images = <<>>
    /\ idx = 1
    /\ block_out = <<>>
    /\ image_out = <<>>
    /\ total_updated = 0
    /\ nwrites = 0
    /\ initial = <<>>
    /\ scanned = <<>>
    /\ nfaults = 0
    /\ prev = NoPrev
    /\ echo_err = NoEcho
    /\ opt = DefaultOpt(<<>>)
    /\ ghost = NoGhost
    /\ refrun = NoRef
    /\ \E t \in RwTexts, m \in RwMaps, b \in RwBlocks :
           rw = [stage |-> "input", fn |-> "none", text |-> t, map |-> m,
                 block |-> b, out |-> TemplateError]

\* processor.replace_urls(text, map) is called.
CallReplaceUrls ==
    /\ pc = "rewrite"
    /\ rw.stage = "input"
    /\ rw' = [rw EXCEPT !.stage = "output", !.fn = "replace_urls",
                        !.out = replace_urls(rw.text, rw.map)]
    /\ UNCHANGED <<pc, run, use_gcs, content, disk, files, puml_blocks, images,
                   idx, block_out, image_out, total_updated, nwrites, initial,
                   scanned, nfaults, prev, echo_err, opt,
                   ghost, refrun>>

\* processor.replace_plantuml_with_image(text, block, image_filename) is
\* called.
CallReplacePlantuml ==
    /\ pc = "rewrite"
    /\ rw.stage = "input"
    /\ rw' = [rw EXCEPT !.stage = "output", !.fn = "replace_plantuml_with_image",
                        !.out = [err |-> FALSE,
                                 text |-> replace_plantuml_with_image(
                                     rw.text, rw.block, image_filename(rw.block))]]
    /\ UNCHANGED <<pc, run, use_gcs, content, disk, files, puml_blocks, images,
                   idx, block_out, image_out, total_updated, nwrites, initial,
                   scanned, nfaults, prev, echo_err, opt,
                   ghost, refrun>>

NextRewrite == CallReplaceUrls \/ CallReplacePlantuml

SpecRewrite == InitRewrite /\ [][NextRewrite]_vars

\* replace_urls has returned or raised.
UrlsReplaced == rw.stage = "output" /\ rw.fn = "replace_urls"

\* One key of the mapping is a textual suffix of another.
IsSuffix(a, b) ==
    Len(a) < Len(b) /\ SubSeq(b, Len(b) - Len(a) + 1, Len(b)) = a

NestedKeys(map) ==
    \E i, j \in 1..Len(map) : IsSuffix(map[i].key, map[j].key)

\* The references of the image links of a text.
LinkRefs(text) ==
    {finditer_images(text)[n].original : n \in 1..Len(finditer_images(text))}

MapKeys(map) == {map[i].key : i \in 1..Len(map)}

TargetOf(map, key) == map[CHOOSE i \in 1..Len(map) : map[i].key = key].url

RECURSIVE OwnTargetsFrom(_, _, _)
\* text[i..] with the reference of each image link that equals a key
\* replaced by the target of that key, and nothing else changed.
OwnTargetsFrom(text, i, map) ==
    IF i > Len(text) THEN <<>>
    ELSE LET m == ImageMatchAt(text, i) IN
         IF m.ok
         THEN SubSeq(text, i, m.match_end - Len(m.original) - 1)
              \o (IF m.original \in MapKeys(map)
                  THEN TargetOf(map, m.original) ELSE m.original)
              \o <<")">>
              \o OwnTargetsFrom(text, m.match_end + 1, map)
         ELSE <<text[i]>> \o OwnTargetsFrom(text, i + 1, map)

\* C9: order-safety on nested paths.  For every text and every mapping in
\* which one key is a textual suffix of another, replace_urls returns the
\* text with each image link whose reference equals a key rewritten to that
\* key's own target, and nothing else rewritten.
C9_NestedKeysOwnTarget ==
    (UrlsReplaced /\ NestedKeys(rw.map)) =>
        /\ ~rw.out.err
        /\ rw.out.text = OwnTargetsFrom(rw.text, 1, rw.map)

\* C10: the rewrite engine does nothing when there is nothing to rewrite.
\* replace_urls returns the text unchanged for an empty mapping and for a
\* mapping none of whose keys is the reference of an image link of the text;
\* replace_plantuml_with_image returns the text unchanged when the block's
\* full match does not occur in it.
C10_NothingToRewrite ==
    /\ (UrlsReplaced /\ MapKeys(rw.map) \cap LinkRefs(rw.text) = {})
           => (~rw.out.err /\ rw.out.text = rw.text)
    /\ (rw.stage = "output" /\ rw.fn = "replace_plantuml_with_image"
            /\ ~Contains(rw.text, rw.block.full_match))
           => rw.out.text = rw.text

\* The alt texts of the image links of a text, from left to right.
Alts(text) ==
    [n \in 1..Len(finditer_images(text)) |-> finditer_images(text)[n].alt_text]

RECURSIVE OutsideLinksFrom(_, _)
\* text[i..] without its image links.
OutsideLinksFrom(text, i) ==
    IF i > Len(text) THEN <<>>
    ELSE LET m == ImageMatchAt(text, i) IN
         IF m.ok THEN OutsideLinksFrom(text, m.match_end + 1)
         ELSE <<text[i]>> \o OutsideLinksFrom(text, i + 1)

\* How many image links of a text have the given reference.
LinksTo(text, ref) ==
    LET matches == finditer_images(text)
    IN  Cardinality({n \in 1..Len(matches) : matches[n].original = ref})

\* C11: replace_urls is anchored to the image-link context.  In the text it
\* returns, everything outside the image links is as it was, every image
\* link keeps its alt text, and a link whose reference is not a key keeps
\* its reference.
C11_AnchoredToImageLinks ==
    (UrlsReplaced /\ ~rw.out.err) =>
        /\ OutsideLinksFrom(rw.out.text, 1) = OutsideLinksFrom(rw.text, 1)
        /\ Alts(rw.out.text) = Alts(rw.text)
        /\ \A n \in 1..Len(finditer_images(rw.text)) :
               finditer_images(rw.text)[n].original \notin MapKeys(rw.map)
                   => finditer_images(rw.out.text)[n].original
                          = finditer_images(rw.text)[n].original

\* C12: replace_urls replaces every occurrence.  After replace_urls(text,
\* {r: u}) no image link of the result has reference r, and the links that
\* had it now have target u, however many they were.
C12_EveryOccurrence ==
    (UrlsReplaced /\ Len(rw.map) = 1 /\ ~rw.out.err) =>
        /\ LinksTo(rw.out.text, rw.map[1].key) = 0
        /\ LinksTo(rw.out.text, rw.map[1].url)
               = LinksTo(rw.text, rw.map[1].key) + LinksTo(rw.text, rw.map[1].url)

\* C13: the rewrite engine is total.  For every text and every mapping,
\* replace_urls returns a text, and the target of every key that is the
\* reference of an image link is in that text literally, as the reference
\* of a link.
C13_Total ==
    UrlsReplaced =>
        /\ ~rw.out.err
        /\ \A e \in 1..Len(rw.map) :
               rw.map[e].key \in LinkRefs(rw.text)
                   => Contains(rw.out.text, <<"]", "(">> \o rw.map[e].url \o <<")">>)

\* replace_plantuml_with_image has returned.
PlantumlReplaced == rw.stage = "output" /\ rw.fn = "replace_plantuml_with_image"

RECURSIVE PiecesFrom(_, _, _, _)
\* The pieces of s[i..] between the occurrences of pat, taken from left to
\* right without overlap; acc is the piece being read.
PiecesFrom(s, i, pat, acc) ==
    IF i > Len(s) THEN <<acc>>
    ELSE IF StartsWithAt(s, i, pat)
         THEN <<acc>> \o PiecesFrom(s, i + Len(pat), pat, <<>>)
         ELSE PiecesFrom(s, i + 1, pat, Append(acc, s[i]))

\* The image line that stands for the block of the call.
RwImageLine ==
    <<"!", "[">> \o rw.block.diagram_name \o <<"]", "(">>
        \o image_filename(rw.block) \o <<")">>

\* C14: replace_plantuml_with_image replaces every occurrence of the
\* block's full match by the one image line.  When the text holds the full
\* match, the result holds the image line and not the full match, and the
\* text between the image lines is the text between the occurrences.
C14_BlockReplaced ==
    (PlantumlReplaced /\ Contains(rw.text, rw.block.full_match)) =>
        /\ Contains(rw.out.text, RwImageLine)
        /\ ~Contains(rw.out.text, rw.block.full_match)
        /\ PiecesFrom(rw.out.text, 1, RwImageLine, <<>>)
               = PiecesFrom(rw.text, 1, rw.block.full_match, <<>>)

\* The full match occurred twice and both occurrences are image lines now.
C14_Witness ==
    /\ PlantumlReplaced
    /\ Len(PiecesFrom(rw.text, 1, rw.block.full_match, <<>>)) >= 3
    /\ Len(PiecesFrom(rw.out.text, 1, RwImageLine, <<>>)) >= 3
    /\ ~Contains(rw.out.text, rw.block.full_match)

(***************************************************************************)
(* The scanner on its own: find_local_images and find_plantuml_blocks      *)
(* applied to texts and sets of existing files, and the source that        *)
(* convert_plantuml_to_image sends for a block found.                      *)
(***************************************************************************)
LinkRemote == ImageLink("r", <<"https://", "h/", "img", ".png">>)
LinkMissing == ImageLink("m", <<"gone", ".png">>)
LinkUpper == ImageLink("u", <<"shot", ".PNG">>)
LinkNotes == ImageLink("t", <<"notes", ".txt">>)
LinkDot == ImageLink("d", <<"./", "img", ".png">>)
\* ![](img.png) and ![alt]()
LinkNoAlt == <<"!", "[", "]", "(", "img", ".png", ")">>
LinkNoRef == <<"!", "[", "alt", "]", "(", ")">>
\* The body of SegBare with other whitespace around it.
SegSpaced == <<Fence, "plantuml", "\n", " ", "B", "\n", "\n", Fence>>
SegStartOnly == <<Fence, "plantuml", "\n", "@startuml", "\n", "A", "\n", Fence>>
SegEndOnly == <<Fence, "plantuml", "\n", "A", "\n", "@enduml", "\n", Fence>>

\* A comment line before @startuml.
SegLate ==
    <<Fence, "plantuml", "\n", "'c", "\n", "@startuml", "\n", "A", "\n", "@enduml",
      "\n", Fence>>

ScanSegments ==
    {SegImg, LinkRemote, LinkMissing, LinkUpper, LinkNotes, LinkDot, LinkNoAlt,
     LinkNoRef, SegBare, SegSpaced, SegNamed, SegStartOnly, SegEndOnly, SegLate}

ScanTexts == {Flatten(d) : d \in SeqsUpTo(ScanSegments, MaxScanSegs)}

\* The regular files beside the document.
ScanFiles ==
    {{}, {<<"img", ".png">>},
     {<<"img", ".png">>, <<"shot", ".PNG">>, <<"notes", ".txt">>}}

InitScan ==
    /\ pc = "scan"
    /\ run = 1
    /\ use_gcs = FALSE
    /\ content = <<>>
    /\ disk = <<>>
    /\ files = {}
    /\ puml_blocks = <<>>
    /\ images = <<>>
    /\ idx = 1
    /\ block_out = <<>>
    /\ image_out = <<>>
    /\ total_updated = 0
    /\ nwrites = 0
    /\ initial = <<>>
    /\ scanned = <<>>
    /\ nfaults = 0
    /\ prev = NoPrev
    /\ echo_err = NoEcho
    /\ opt = DefaultOpt(<<>>)
    /\ ghost = NoGhost
    /\ refrun = NoRef
    /\ \E t \in ScanTexts, f \in ScanFiles :
           rw = [stage |-> "input", fn |-> "none", text |-> t, fs |-> f,
                 out |-> <<>>]

\* processor.find_local_images(text, path): the matches it iterates over
\* and the images it returns.
CallFindLocalImages ==
    /\ pc = "scan"
    /\ rw.stage = "input"
    /\ rw' = [rw EXCEPT !.stage = "output", !.fn = "find_local_images",
                        !.out = [matches |-> finditer_images(rw.text),
                                 images |-> find_local_images(rw.text, rw.fs)]]
    /\ UNCHANGED <<pc, run, use_gcs, content, disk, files, puml_blocks, images,
                   idx, block_out, image_out, total_updated, nwrites, initial,
                   scanned, nfaults, prev, echo_err, opt,
                   ghost, refrun>>

\* processor.find_plantuml_blocks(text)
CallFindPlantumlBlocks ==
    /\ pc = "scan"
    /\ rw.stage = "input"
    /\ rw' = [rw EXCEPT !.stage = "output", !.fn = "find_plantuml_blocks",
                        !.out = [blocks |-> find_plantuml_blocks(rw.text)]]
    /\ UNCHANGED <<pc, run, use_gcs, content, disk, files, puml_blocks, images,
                   idx, block_out, image_out, total_updated, nwrites, initial,
                   scanned, nfaults, prev, echo_err, opt,
                   ghost, refrun>>

\* convert_plantuml_to_image(block['content'], image_path) for a block of
\* the text: the source it posts to the renderer.
CallConvertPlantuml ==
    /\ pc = "scan"
    /\ rw.stage = "input"
    /\ \E i \in 1..Len(find_plantuml_blocks(rw.text)) :
           rw' = [rw EXCEPT !.stage = "output", !.fn = "convert_plantuml_to_image",
                            !.out = [block |-> find_plantuml_blocks(rw.text)[i],
                                     posted |-> convert_content(
                                         find_plantuml_blocks(rw.text)[i].content)]]
    /\ UNCHANGED <<pc, run, use_gcs, content, disk, files, puml_blocks, images,
                   idx, block_out, image_out, total_updated, nwrites, initial,
                   scanned, nfaults, prev, echo_err, opt,
                   ghost, refrun>>

NextScan == CallFindLocalImages \/ CallFindPlantumlBlocks \/ CallConvertPlantuml

SpecScan == InitScan /\ [][NextScan]_vars

\* find_local_images has returned.
ImagesFound == rw.stage = "output" /\ rw.fn = "find_local_images"

\* The match is among the images returned.
Returned(m) ==
    \E k \in 1..Len(rw.out.images) :
        /\ rw.out.images[k].match_start = m.match_start
        /\ rw.out.images[k].original = m.original
        /\ rw.out.images[k].alt_text = m.alt_text

\* The reference, without a leading "./", names a file that exists.
FileExists(ref) ==
    (IF ref[1] = "./" THEN Tail(ref) ELSE ref) \in rw.fs

\* C15: find_local_images returns an image link if and only if its
\* reference starts with none of http://, https://, ftp://, //, ends, in
\* lower case, with one of the eight image extensions, and names an existing
\* regular file; it returns nothing else.
C15_LocalIff ==
    ImagesFound =>
        /\ \A n \in 1..Len(rw.out.matches) :
               LET m == rw.out.matches[n] IN
               Returned(m) <=>
                   /\ m.original[1] \notin {"http://", "https://", "ftp://", "//"}
                   /\ Lower(m.original[Len(m.original)])
                          \in {".png", ".jpg", ".jpeg", ".gif", ".svg", ".webp",
                               ".bmp", ".ico"}
                   /\ FileExists(m.original)
        /\ \A k \in 1..Len(rw.out.images) :
               \E n \in 1..Len(rw.out.matches) :
                   rw.out.matches[n].match_start = rw.out.images[k].match_start
        /\ \A k, l \in 1..Len(rw.out.images) :
               k # l => rw.out.images[k].match_start # rw.out.images[l].match_start

\* A text with a local image whose extension is in capitals beside a link
\* that is not returned.
C15_Witness ==
    /\ ImagesFound
    /\ Len(rw.out.images) = 1
    /\ Len(rw.out.matches) = 2
    /\ rw.out.images[1].original = <<"shot", ".PNG">>

\* C17 as stated: the scanner drops no link for an empty alt text or an
\* empty reference.  A text that holds ![](img.png) has a match with an empty alt
\* text, and a text that holds ![alt]() has a match with an empty reference,
\* among the matches find_local_images goes on to classify.
C17_AsStated ==
    ImagesFound =>
        /\ Contains(rw.text, LinkNoAlt)
               => \E n \in 1..Len(rw.out.matches) :
                      /\ rw.out.matches[n].alt_text = <<>>
                      /\ rw.out.matches[n].original = <<"img", ".png">>
        /\ Contains(rw.text, LinkNoRef)
               => \E n \in 1..Len(rw.out.matches) :
                      /\ rw.out.matches[n].alt_text = <<"alt">>
                      /\ rw.out.matches[n].original = <<>>

\* C17: the scanner drops no link for an empty alt text: a text that holds
\* ![](img.png) has a match with an empty alt text, which is classified and,
\* its file existing, returned.  A link with an empty reference is no match
\* of the pattern: no match has an empty reference.
C17_EmptyAltMatches ==
    ImagesFound =>
        /\ Contains(rw.text, LinkNoAlt)
               => \E n \in 1..Len(rw.out.matches) :
                      /\ rw.out.matches[n].alt_text = <<>>
                      /\ rw.out.matches[n].original = <<"img", ".png">>
                      /\ <<"img", ".png">> \in rw.fs => Returned(rw.out.matches[n])
        /\ \A n \in 1..Len(rw.out.matches) : rw.out.matches[n].original # <<>>
        /\ rw.text = LinkNoRef => rw.out.matches = <<>>

\* ![alt]() followed by ![](img.png): the second alone is matched and
\* returned.
C17_Witness ==
    /\ ImagesFound
    /\ rw.text = LinkNoRef \o LinkNoAlt
    /\ Len(rw.out.matches) = 1
    /\ Len(rw.out.images) = 1
    /\ rw.out.images[1].alt_text = <<>>

\* find_plantuml_blocks has returned.
BlocksFound == rw.stage = "output" /\ rw.fn = "find_plantuml_blocks"

\* The text between the opening fence line and the closing fence of a block.
RawBody(b) == SubSeq(b.full_match, 3, Len(b.full_match) - 1)

\* A body without the whitespace at its ends.
Trimmed(body) ==
    LET ink == {n \in 1..Len(body) : body[n] \notin {" ", "\n", "\t"}} IN
    IF ink = {} THEN <<>> ELSE SubSeq(body, MinOf(ink), MaxOf(ink))

\* C18: diagram identity is a function of the trimmed source.  Two blocks
\* found whose bodies are equal after trimming have the same hash, of eight
\* characters, and the same file name {name}-{hash}.png.
C18_IdentityOfTrimmedSource ==
    BlocksFound =>
        \A i, j \in 1..Len(rw.out.blocks) :
            LET a == rw.out.blocks[i]
                b == rw.out.blocks[j]
            IN  Trimmed(RawBody(a)) = Trimmed(RawBody(b)) =>
                    /\ a.hash = b.hash
                    /\ Len(a.hash) = 8
                    /\ image_filename(a) = image_filename(b)
                    /\ image_filename(a) = a.diagram_name \o <<"-", a.hash, ".png">>

\* Two blocks that differ in the whitespace around the same body.
C18_Witness ==
    /\ BlocksFound
    /\ Len(rw.out.blocks) = 2
    /\ rw.out.blocks[1].full_match # rw.out.blocks[2].full_match
    /\ rw.out.blocks[1].hash = rw.out.blocks[2].hash

\* convert_plantuml_to_image has posted the source of a block.
SourcePosted == rw.stage = "output" /\ rw.fn = "convert_plantuml_to_image"

\* How many times a token occurs in a text.
Occurrences(text, t) == Cardinality({n \in 1..Len(text) : text[n] = t})

C16_ScanOrder ==
    /\ \A i, j \in 1..Len(puml_blocks) :
           i < j => puml_blocks[i].match_start < puml_blocks[j].match_start
    /\ \A i, j \in 1..Len(images) :
           i < j => images[i].match_start < images[j].match_start
    /\ pc = "diagrams" => Len(block_out) = idx - 1
    /\ pc = "images" => Len(image_out) = idx - 1
    /\ Len(block_out) <= Len(puml_blocks)
    /\ Len(image_out) <= Len(images)
    /\ \A k \in 1..Len(block_out) :
           block_out[k] = "ok" => image_filename(puml_blocks[k]) \in files
    /\ \A k \in 1..Len(image_out) :
           image_out[k].res \in {"ok", "write_failed"}
               => image_out[k].url \in UploadResults(images[k].path)

\* Three local images were found and uploaded one after the other.
C16_Witness ==
    /\ pc = "done"
    /\ Len(images) = 3
    /\ Len(image_out) = 3
    /\ \A k \in 1..3 : image_out[k].res = "ok"

\* C20: a failed render call.  No image file is written for a block whose
\* render call failed, and the message echoed for the failure is the
\* response's x-plantuml-diagram-error header when the failed response
\* carries one, and the text of the exception otherwise.
C20_RenderFailureReported ==
    [][(/\ Len(block_out') = Len(block_out) + 1
        /\ block_out'[Len(block_out')] = "render_failed")
       => /\ files' = files
          /\ disk' = disk
          /\ echo_err'.failure \in {"no_response", "http_error",
                                    "http_error_with_header"}
          /\ echo_err'.error_msg =
                 IF echo_err'.failure = "http_error_with_header"
                 THEN "x-plantuml-diagram-error"
                 ELSE "str(e)"]_vars

\* The render call of a block failed with the header in the response after
\* another block was rendered and stored.
C20_Witness ==
    /\ echo_err.failure = "http_error_with_header"
    /\ Len(block_out) = 2
    /\ block_out[1] = "ok"
    /\ block_out[2] = "render_failed"
    /\ image_filename(puml_blocks[1]) \in files
    /\ image_filename(puml_blocks[2]) \notin files

(***************************************************************************)
(* Calls, targets and writes of one invocation.                            *)
(***************************************************************************)
\* C26: with the GCS uploader, two images of one invocation that are
\* different local files are never given the same public URL.
C26_DistinctFilesDistinctUrls ==
    use_gcs =>
        \A i, j \in ImagesEnded("ok") :
            images[i].path # images[j].path => image_out[i].url # image_out[j].url

\* The items for which the write of the document was reached: the render or
\* the upload succeeded and the rewrite was made.
WriteReached ==
    Cardinality({i \in 1..Len(block_out) : block_out[i] \in {"ok", "write_failed"}})
    + Cardinality({k \in 1..Len(image_out) : image_out[k].res \in {"ok", "write_failed"}})

\* The items that succeeded.
Succeeded ==
    Cardinality({i \in 1..Len(block_out) : block_out[i] = "ok"})
    + Cardinality(ImagesEnded("ok"))

\* C27: the document is written once for each item whose render or upload
\* succeeded and at no other time, and as long as no item of the invocation
\* has succeeded the file on disk is the text the invocation read.
C27_WrittenOncePerSuccess ==
    /\ nwrites = WriteReached
    /\ (pc # "start" /\ Succeeded = 0) => disk = initial

\* Two items succeeded and one upload failed: two writes, and the file is
\* no longer the text that was read.
C27_Witness ==
    /\ pc = "done"
    /\ Succeeded = 2
    /\ ImagesEnded("upload_failed") # {}
    /\ nwrites = 2
    /\ disk # initial

\* C21: no retry.  An invocation that has ended has made one render call for
\* each diagram block of the first scan and one upload call for each image
\* reference of the image scan, duplicates included; block_out and image_out
\* hold one entry for each call made.
C21_OneCallPerItem ==
    pc \in Terminal =>
        /\ Len(block_out) = Len(puml_blocks)
        /\ Len(image_out) = Len(images)

(***************************************************************************)
(* Properties of buildmarkdown with its options.                           *)
(***************************************************************************)
\* The document was not read and not written, and no render or upload call
\* was made.
NotProcessed ==
    /\ disk = opt.file
    /\ content = <<>>
    /\ initial = <<>>
    /\ nwrites = 0
    /\ files = ExistingFiles
    /\ block_out = <<>>
    /\ image_out = <<>>

\* The invocation has read nothing, written nothing and called nobody.
Untouched == NotProcessed /\ ghost = NoGhost

\* C29: when the file's suffix is not .md, or GCS is configured and the
\* user is not authenticated, buildmarkdown does nothing but abort: the
\* document is neither read nor modified and no render or upload call is
\* made.
C29_AbortBeforeReading ==
    (/\ opt.command = "buildmarkdown"
     /\ ~opt.suffix_md \/ (use_gcs /\ ~opt.authenticated)) =>
        /\ pc \in {"start", "aborted"}
        /\ Untouched

\* buildmarkdown has aborted on a markdown file with a diagram block and a
\* local image, for want of the credentials.
C29_Witness ==
    /\ opt.command = "buildmarkdown"
    /\ pc = "aborted"
    /\ opt.suffix_md
    /\ use_gcs
    /\ ~opt.authenticated
    /\ ~opt.no_plantuml
    /\ find_plantuml_blocks(disk) # <<>>
    /\ find_local_images(disk, files) # <<>>

\* The fenced plantuml blocks of a text, in order, each as it is written.
BlockTexts(text) ==
    [i \in 1..Len(find_plantuml_blocks(text)) |-> find_plantuml_blocks(text)[i].full_match]

\* The image pass of the command, which had an uploader, has ended.
ImagePassEnded ==
    IF opt.command = "buildmarkdown"
    THEN pc = "done"
    ELSE /\ ~opt.no_images
         /\ HasUploader
         /\ pc = "returned" \/ ghost.post # "none"

ProcessingFinished ==
    /\ initial = opt.file
    /\ Len(block_out) = Len(puml_blocks)
    /\ Len(image_out) = Len(images)
    /\ scanned = disk \/ ImagesEnded("ok") # {}

\* C22: the order of publish.  The Ghost post is created only after the
\* processing has finished (or was switched off by --no-images) and is
\* built from the document as it then is on disk; the featured image is
\* uploaded and set only after the post was created; and when the Ghost URL
\* or the admin key is not configured the command does nothing but abort:
\* no read, no write, no call.
C22_PublishOrdering ==
    opt.command = "publish" =>
        /\ ghost.post = "created" =>
               /\ IF opt.no_images THEN NotProcessed ELSE ProcessingFinished
               /\ ghost.source = disk
               /\ pc \in {"featured", "done", "aborted"}
        /\ ghost.featured # "none" => ghost.post = "created"
        /\ (pc = "featured" \/ ghost.featured # "none") => opt.featured_image
        /\ ~opt.ghost_configured =>
               /\ pc \in {"start", "aborted"}
               /\ Untouched

\* publish is done: a diagram was rendered and its image uploaded, the post
\* was created from the rewritten document, and the featured image was set
\* after it.
C22_Witness ==
    /\ opt.command = "publish"
    /\ pc = "done"
    /\ ghost.post = "created"
    /\ ghost.featured = "set"
    /\ ghost.source # opt.file
    /\ \E i \in 1..Len(block_out) : block_out[i] = "ok"
    /\ ImagesEnded("ok") # {}

(***************************************************************************)
(* Links once rewritten.                                                   *)
(***************************************************************************)
\* The targets written into the document for the items that succeeded so
\* far: the image file of each rendered block, the URL returned for each
\* uploaded image.
TargetsWritten ==
    {image_filename(puml_blocks[i]) :
         i \in {n \in 1..Len(block_out) : block_out[n] = "ok"}}
    \cup {image_out[k].url : k \in ImagesEnded("ok")}

\* The step is the image item whose reference string is t.
ItemOf(t) ==
    /\ pc \in {"images", "pmi_images"}
    /\ idx <= Len(images)
    /\ images[idx].original = t

ItemUpTo(t) ==
    /\ pc \in {"images", "pmi_images"}
    /\ idx <= Len(images)
    /\ \E j \in 1..idx : images[j].original = t

Calls ==
    [i \in 1..Len(block_out) |-> [call |-> "render", arg |-> puml_blocks[i].content]]
    \o [k \in 1..Len(image_out) |-> [call |-> "upload", arg |-> images[k].path]]

\* buildmarkdown has ended; the file and the directory are put back as they
\* were given and process_markdown_images is called on them, with the same
\* uploader and the same answers of the collaborators.
ThenProcess ==
    /\ opt.command = "buildmarkdown"
    /\ pc \in Terminal
    /\ refrun.status = "none"
    /\ refrun' = [status |-> pc, disk |-> disk, files |-> files,
                  block_out |-> block_out, image_out |-> image_out,
                  calls |-> Calls]
    /\ disk' = opt.file
    /\ files' = ExistingFiles
    /\ pc' = "pmi_start"
    /\ content' = <<>>
    /\ puml_blocks' = <<>>
    /\ images' = <<>>
    /\ idx' = 1
    /\ block_out' = <<>>
    /\ image_out' = <<>>
    /\ total_updated' = 0
    /\ nwrites' = 0
    /\ initial' = <<>>
    /\ scanned' = <<>>
    /\ nfaults' = 0
    /\ echo_err' = NoEcho
    /\ UNCHANGED <<run, use_gcs, prev, rw, opt, ghost>>

EquivOptions ==
    {[DefaultOpt(<<>>) EXCEPT !.no_plantuml = n] : n \in BOOLEAN}

InitEquiv == InitWith(CmdDocs, EquivOptions)

NextEquiv == Next \/ ThenProcess \/ NextPmi

SpecEquiv == InitEquiv /\ [][NextEquiv]_vars

\* process_markdown_images has ended after buildmarkdown.
BothEnded == refrun.status # "none" /\ pc \in {"returned", "aborted"}

\* C28: buildmarkdown and process_markdown_images, given the same document,
\* the same uploader and the same answers of the collaborators, make the
\* same render and upload calls in the same order and leave the same
\* document on disk (and the same image files beside it), both ending
\* normally or both with an exception; at every point of the second, the
\* calls made so far are the first calls of the first.
C28_SameCallsSameDocument ==
    /\ refrun.status # "none" =>
           /\ Len(Calls) <= Len(refrun.calls)
           /\ Calls = SubSeq(refrun.calls, 1, Len(Calls))
    /\ BothEnded =>
        /\ Calls = refrun.calls
        /\ block_out = refrun.block_out
        /\ image_out = refrun.image_out
        /\ disk = refrun.disk
        /\ files = refrun.files
        /\ (pc = "returned") = (refrun.status = "done")

\* Both have ended on a document with a diagram and an image: the diagram
\* was rendered, one upload failed and one succeeded.
C28_Witness ==
    /\ BothEnded
    /\ pc = "returned"
    /\ block_out = <<"ok">>
    /\ ImagesEnded("ok") # {}
    /\ ImagesEnded("upload_failed") # {}
    /\ disk # opt.file

(***************************************************************************)
(* ImageUploader.upload_image and the item that calls it.                  *)
(***************************************************************************)
\* Values of the JSON member public_url: no such member, null, a string, a
\* number.
Absent == [type |-> "absent", str |-> <<>>, num |-> 0]
Null == [type |-> "null", str |-> <<>>, num |-> 0]
Str(s) == [type |-> "str", str |-> s, num |-> 0]
Num(n) == [type |-> "num", str |-> <<>>, num |-> n]

\* Python's truth value of result.get('public_url').
Truthy(v) ==
    CASE v.type = "str" -> v.str # <<>>
      [] v.type = "num" -> v.num # 0
      [] OTHER -> FALSE

PublicUrls ==
    {Absent, Null, Str(<<>>), Num(0), Num(7),
     Str(<<"http://", "cdn/", "img", ".png">>),
     Str(<<"assets/", "img", ".png">>),
     Str(<<"9", ".png">>)}

\* What the backend answers: nothing (the request fails), or a status and a
\* body that is no JSON, a JSON array, or a JSON object.
Answers ==
    {[kind |-> "no_response", status_code |-> 0, body |-> "none", public_url |-> Absent]}
    \cup {[kind |-> "response", status_code |-> c, body |-> b, public_url |-> Absent] :
              c \in {200, 404, 500}, b \in {"not_json", "array"}}
    \cup {[kind |-> "response", status_code |-> c, body |-> "object", public_url |-> u] :
              c \in {200, 404, 500}, u \in PublicUrls}

Raised(e) == [raised |-> TRUE, error |-> e, value |-> Absent]

\* public_url is returned as the response holds it, without the test of
\* line 62.
upload_image_unchecked(exists, answer) ==
    IF ~exists THEN Raised("FileNotFoundError")
    ELSE IF answer.kind = "no_response" THEN Raised("RequestException")
    ELSE IF answer.status_code # 200 THEN Raised("Exception")
    ELSE IF answer.body = "not_json" THEN Raised("Exception")
    ELSE IF answer.body # "object" THEN Raised("AttributeError")
    ELSE [raised |-> FALSE, error |-> "none",
          value |-> IF answer.public_url = Absent THEN Null ELSE answer.public_url]

\* image_uploader.py 34-66: the file is missing (34-35); the request fails
\* (47-52); the status is not 200 (55-56); the body is no JSON (60, 65-66)
\* or no JSON object (61: .get on a list); public_url is missing or falsy
\* (61-63); else public_url is returned (64).
upload_image(exists, answer) ==
    IF ~exists THEN Raised("FileNotFoundError")
    ELSE IF answer.kind = "no_response" THEN Raised("RequestException")
    ELSE IF answer.status_code # 200 THEN Raised("Exception")
    ELSE IF answer.body = "not_json" THEN Raised("Exception")
    ELSE IF answer.body # "object" THEN Raised("AttributeError")
    ELSE IF ~Truthy(answer.public_url) THEN Raised("Exception")
    ELSE [raised |-> FALSE, error |-> "none", value |-> answer.public_url]

\* The reference of the item, and the documents it stands in.
UploadRef == <<"img", ".png">>

UploadTexts == {SegImg, SegImg \o SegNested}

InitUpload ==
    /\ pc = "upload"
    /\ run = 1
    /\ use_gcs = FALSE
    /\ content = <<>>
    /\ disk = <<>>
    /\ files = {}
    /\ puml_blocks = <<>>
    /\ images = <<>>
    /\ idx = 1
    /\ block_out = <<>>
    /\ image_out = <<>>
    /\ total_updated = 0
    /\ nwrites = 0
    /\ initial = <<>>
    /\ scanned = <<>>
    /\ nfaults = 0
    /\ prev = NoPrev
    /\ echo_err = NoEcho
    /\ opt = DefaultOpt(<<>>)
    /\ ghost = NoGhost
    /\ refrun = NoRef
    /\ \E t \in UploadTexts, x \in BOOLEAN, a \in Answers :
           rw = [stage |-> "input", fn |-> "none", text |-> t, exists |-> x,
                 answer |-> a, out |-> Raised("none"), written |-> t]

\* cli.py 125: uploader.upload_image(image_info["path"], folder) returns or
\* raises.
CallUploadImage ==
    /\ pc = "upload"
    /\ rw.stage = "input"
    /\ rw' = [rw EXCEPT !.stage = "uploaded", !.fn = "upload_image",
                        !.out = upload_image(rw.exists, rw.answer)]
    /\ UNCHANGED <<pc, run, use_gcs, content, disk, files, puml_blocks, images,
                   idx, block_out, image_out, total_updated, nwrites, initial,
                   scanned, nfaults, prev, echo_err, opt, ghost, refrun>>

\* cli.py 126-138: the rest of the item.  After an exception nothing is
\* rewritten; a value that is no string makes the concatenation of
\* markdown_processor.py:90 raise, a bad template makes re.sub raise, and
\* the handler of line 137 catches both; else the rewritten text is written.
RewriteAfterUpload ==
    /\ pc = "upload"
    /\ rw.stage = "uploaded"
    /\ LET r == IF rw.out.raised \/ rw.out.value.type # "str"
                THEN [err |-> TRUE, text |-> rw.text]
                ELSE replace_urls(rw.text,
                         <<[key |-> UploadRef, url |-> rw.out.value.str]>>)
       IN  rw' = [rw EXCEPT !.stage = "output",
                            !.written = IF r.err THEN rw.text ELSE r.text]
    /\ UNCHANGED <<pc, run, use_gcs, content, disk, files, puml_blocks, images,
                   idx, block_out, image_out, total_updated, nwrites, initial,
                   scanned, nfaults, prev, echo_err, opt, ghost, refrun>>

NextUpload == CallUploadImage \/ RewriteAfterUpload

SpecUpload == InitUpload /\ [][NextUpload]_vars

\* upload_image has returned or raised.
Uploaded == rw.stage \in {"uploaded", "output"} /\ rw.fn = "upload_image"

\* The answer holds a public_url to return.
HoldsUrl(answer) ==
    /\ answer.kind = "response"
    /\ answer.status_code = 200
    /\ answer.body = "object"
    /\ Truthy(answer.public_url)

\* C24: ImageUploader.upload_image returns a non-empty public URL or
\* raises: it raises when the file is missing, the status is not 200, the
\* body is no JSON or holds no public_url, and what it returns otherwise is
\* the non-empty public_url of the answer; the item that called it leaves
\* the document as it was after an exception and never writes a link with
\* an empty target.
C24_UrlOrException ==
    /\ Uploaded =>
           /\ rw.out.raised = ~(rw.exists /\ HoldsUrl(rw.answer))
           /\ ~rw.out.raised =>
                  /\ Truthy(rw.out.value)
                  /\ rw.out.value = rw.answer.public_url
    /\ rw.stage = "output" =>
           /\ rw.out.raised => rw.written = rw.text
           /\ ~Contains(rw.written, <<"(", ")">>)
           /\ rw.written # rw.text => LinksTo(rw.written, rw.out.value.str) > 0

\* The backend answered 200 with a public_url, and the item rewrote the one
\* link to img.png and left the other.
C24_Witness ==
    /\ rw.stage = "output"
    /\ rw.text = SegImg \o SegNested
    /\ ~rw.out.raised
    /\ rw.out.value = Str(<<"http://", "cdn/", "img", ".png">>)
    /\ rw.written =
           ImageLink("a", <<"http://", "cdn/", "img", ".png">>) \o SegNested
====
